---- MODULE Spec2Model ----
(***************************************************************************)
(* A model of the mock-backend test toolkit: the orchestration of backend  *)
(* worker processes (backends/api.py, backends/abackend.py and the three   *)
(* concrete start_server coroutines), the HTTP rule engine                 *)
(* (backends/http/http_backend.py) and the log capture bridge              *)
(* (LogsStorage in backends/api.py).                                       *)
(*                                                                         *)
(* Each subsystem has its own specification (SpecOrch, SpecHTTP, SpecLogs) *)
(* over the module's variables; a specification leaves the variables of    *)
(* the other subsystems at their initial values.                           *)
(***************************************************************************)
EXTENDS Integers, Sequences, FiniteSets, TLC

(***************************************************************************)
(* Bounds of the model.                                                    *)
(***************************************************************************)
\* the largest number of backends handed to start_backends
MaxBackends == 2
\* the largest start_timeout_sec, in clock ticks
MaxTimeout == 2
\* the largest number of rules of an HTTP backend
MaxRules == 2
\* the largest number of log records a producer puts on the queue
MaxPuts == 3
\* segments a client sends on one connection
MaxSegments == 2

(***************************************************************************)
(* Orchestration: state.                                                   *)
(***************************************************************************)
VARIABLES
    backends,            \* the list given to start_backends: records [kind, port]
    start_timeout_sec,   \* the timeout argument of start_backends
    mode,                \* how the test drives the group: "direct" (start_backends),
                         \* "managed" (backends_manager), "standalone" (start_server
                         \* awaited without run())
    pc,                  \* position of the controlling process
    manager,             \* multiprocessing.Manager(): "none", "up", "down"
    listCreated,         \* manager.list() has been called
    start_signals_list,  \* contents of the shared readiness list
    backend_processes,   \* start_backends' local list of handles (backend indexes)
    backends_processes,  \* backends_manager's local list of handles
    k,                   \* index of the terminate / join loops of backends_manager
    now,                 \* monotonic()
    start,               \* start = monotonic() of start_backends
    exc,                 \* exception in flight or raised: "none", "ValueError",
                         \* "TimeoutError", "BodyError"
    errSignals,          \* the readiness list as formatted into the TimeoutError
    proc,                \* per backend index: the worker process
                         \*   [status, at, list, daemon, starts]
    signalCalls,         \* per backend index: calls of start_signal()
    sigAt,               \* per backend index: clock value of its append, or NoTime
    termCalls,           \* per backend index: terminate() calls on its handle
    joinCalls            \* per backend index: join() calls on its handle

orchVars == <<backends, start_timeout_sec, mode, pc, manager, listCreated,
              start_signals_list, backend_processes, backends_processes, k, now,
              start, exc, errSignals, proc, signalCalls, sigAt, termCalls, joinCalls>>

(***************************************************************************)
(* HTTP backend: state.                                                    *)
(***************************************************************************)
VARIABLES
    rules,       \* HTTPBackend.rules: the ordered rules of the backend
    request,     \* the request of the last handle() call
    response,    \* the response that call returned
    consulted,   \* indexes of the rules whose matches() that call evaluated
    processed    \* indexes of the rules whose result.process() that call awaited

httpVars == <<rules, request, response, consulted, processed>>

(***************************************************************************)
(* gRPC backend: state.                                                    *)
(***************************************************************************)
VARIABLES
    grpc_rules,  \* GRPCRuleInterceptor.rules: the ordered rules of the backend
    grpc_call,   \* the last call: its method and its raw request bytes
    trail,       \* what _handler did for that call, in order: <<step, rule index>>
    outcome      \* how _handler ended for that call

grpcVars == <<grpc_rules, grpc_call, trail, outcome>>

(***************************************************************************)
(* LogsStorage: state.                                                     *)
(***************************************************************************)
VARIABLES
    logs_queue,     \* the queue of log records, oldest first
    logs_storage,   \* LogsStorage.logs_storage, the local buffer
    op,             \* the LogsStorage method in progress, or "idle"
    scope,          \* the with statement: "out", "entering", "in", "exiting",
                    \* "exited"
    exitWith,       \* how the body of the with statement ended: "", "return",
                    \* "raise"
    emitted,        \* every record put so far, with the scope it was put in
    atEnter,        \* queue and buffer as they were when __enter__ was called
    calledSince,    \* the methods called directly since __enter__ was called
    query,          \* the arguments of the has_log_record call in progress
    found,          \* the last has_log_record call that returned: its
                    \* arguments and the value returned, "True" or "False"
    atCall          \* queue, buffer and number of puts as they were when the
                    \* collect_from_queue in progress was called

logVars == <<logs_queue, logs_storage, op, scope, exitWith, emitted, atEnter,
             calledSince, query, found, atCall>>

\* ---- a call of LogsStorage.filter_logs ----
VARIABLES
    filterArgs,     \* the level and name of the last filter_logs call
    filtered        \* the list it returned

filterVars == <<filterArgs, filtered>>

\* ---- NDA_application_manager ----
VARIABLES
    server_start_timeout_sec,
    app_pc,         \* where NDA_application_manager is
    app_manager,    \* "none", "up" or "down"
    NDA_app,        \* the application process
    clock,          \* monotonic()
    app_start,      \* start = monotonic()
    pollAt,         \* the clock when the loop condition last held
    app_exc,        \* the exception leaving the with statement, or "none"
    errors_traces,  \* the text of the ERRORS part of the TimeoutError
    body_ran        \* the caller's body was given control

appVars == <<server_start_timeout_sec, app_pc, app_manager, NDA_app, clock, app_start,
             pollAt, app_exc, errors_traces, body_ran>>

\* ---- TCP backend: one connection ----
VARIABLES
    conn_pc,        \* where handle_connection is for the connection
    segments_sent,  \* the segments the client has sent, in order
    client_eof,     \* the client has closed its sending side
    lost,           \* the connection was reset
    buffer,         \* the bytes received and not yet read from the StreamReader
    read_data,      \* data = await reader.read(1024)
    written,        \* the bytes given to writer.write
    calls           \* the reader and writer calls made, in order

tcpVars == <<conn_pc, segments_sent, client_eof, lost, buffer, read_data, written, calls>>

\* ---- ObjectSpy: the spied callables of one object ----
VARIABLES
    mock_results,   \* object_spy.mock_results: spied method -> list of results
    spy_calls,      \* object_spy.calls
    spy_return,     \* spy_obj.spy_return of each spied method
    spy_exception,  \* spy_obj.spy_exception of each spied method
    frames,         \* the real methods running, the innermost last
    invoked,        \* how often each real method has been invoked
    made,           \* how many calls of spied methods have been made
    delivered       \* what the last call that ended gave its caller

spyVars == <<mock_results, spy_calls, spy_return, spy_exception, frames, invoked, made,
             delivered>>

vars == <<orchVars, httpVars, grpcVars, logVars, filterVars, appVars, tcpVars, spyVars>>

Kinds == {"HTTP", "GRPC", "TCP"}
\* the backend classes a test can put in its group: one of each kind on its own
\* port, and a second gRPC backend whose port collides with the HTTP one
BackendClasses ==
    { [kind |-> "HTTP", port |-> 8001],
      [kind |-> "GRPC", port |-> 8002],
      [kind |-> "TCP", port |-> 8003],
      [kind |-> "GRPC", port |-> 8001] }
Modes == {"direct", "managed", "standalone"}
NoTime == 0 - 1
Idx == 1..MaxBackends

\* sequences over S of length 0..n
SeqUpTo(S, n) == UNION {[1..m -> S] : m \in 0..n}

(***************************************************************************)
(* The start_server coroutines: the calls each makes, in program order.    *)
(* Position 1 is ABackend.run (which records the readiness list); the last *)
(* position is the serve-forever loop, which never completes.              *)
(***************************************************************************)
\* variant: the signal is given before the site is started
HTTPStartServer_SignalFirst ==
    <<"run", "add_routes", "runner_setup", "start_signal", "site_start", "serving">>

HTTPStartServer ==
    <<"run", "add_routes", "runner_setup", "site_start", "start_signal", "serving">>

GRPCStartServer ==
    <<"run", "add_insecure_port", "server_start", "start_signal", "serving">>

TCPStartServer ==
    <<"run", "asyncio_start_server", "start_serving", "start_signal", "serving">>

Program(kind) ==
    CASE kind = "HTTP" -> HTTPStartServer
      [] kind = "GRPC" -> GRPCStartServer
      [] kind = "TCP" -> TCPStartServer

\* the call after which the listening socket accepts connections
StartCall(kind) ==
    CASE kind = "HTTP" -> "site_start"
      [] kind = "GRPC" -> "server_start"
      [] kind = "TCP" -> "start_serving"

\* position of a call in a program
PosOf(prog, call) == CHOOSE n \in 1..Len(prog) : prog[n] = call

\* the call worker i is about to make
CallAt(i) == Program(backends[i].kind)[proc[i].at]

Running(i) == proc[i].status = "running"

\* repr(backend): the default object repr, class name and identity
Repr(i) == <<backends[i].kind, "Backend object", i>>

\* f"{self!r} start message"
Token(i) == <<Repr(i), "start message">>

(***************************************************************************)
(* start_backends: its conditions.                                         *)
(***************************************************************************)
\* variant: the set is built from the backends, not from their ports
SamePorts_ByBackend ==
    Len(backends) # Cardinality({backends[i] : i \in 1..Len(backends)})

\* len(backends) != len({backend.port for backend in backends})
SamePorts == Len(backends) # Cardinality({backends[i].port : i \in 1..Len(backends)})

\* variant: the loop condition ignores the deadline
TimeLeft_Forever == TRUE

\* monotonic() - start < start_timeout_sec
TimeLeft == now - start < start_timeout_sec

\* variant: the comparison is inverted
AllStarted_Inverted == Len(start_signals_list) # Len(backend_processes)

\* variant: one signal is enough
AllStarted_Some == Len(start_signals_list) >= 1 \/ Len(backend_processes) = 0

\* len(start_signals_list) == len(backend_processes)
AllStarted == Len(start_signals_list) = Len(backend_processes)

\* variant: the message is built without the list
TimeoutErrorSignals_Omitted == <<>>

\* what the TimeoutError message carries: the list as it is when formatted
TimeoutErrorSignals == start_signals_list

(***************************************************************************)
(* HTTP backend: strings, mappings, requests, rules.                       *)
(*                                                                         *)
(* A string whose letter case matters (a method, a header name) is a       *)
(* sequence of one-letter strings; other strings are opaque.  A mapping    *)
(* (dict) is a set of <<key, value>> pairs with distinct keys.  A request  *)
(* carries its query parameters and headers as multidicts: sequences of    *)
(* <<key, value>> pairs in the order sent, keys possibly repeated.  An     *)
(* optional attribute is a record [tag, val] with tag "None" when unset.   *)
(***************************************************************************)
Upper == <<"A", "B", "C", "D", "E", "F", "G", "H", "I", "J", "K", "L", "M",
           "N", "O", "P", "Q", "R", "S", "T", "U", "V", "W", "X", "Y", "Z">>
Lower == <<"a", "b", "c", "d", "e", "f", "g", "h", "i", "j", "k", "l", "m",
           "n", "o", "p", "q", "r", "s", "t", "u", "v", "w", "x", "y", "z">>

\* str.lower() of one character
LowerChar(c) ==
    IF \E n \in 1..Len(Upper) : Upper[n] = c
      THEN Lower[CHOOSE n \in 1..Len(Upper) : Upper[n] = c]
      ELSE c

\* str.lower()
ToLower(str) == [n \in 1..Len(str) |-> LowerChar(str[n])]

GET == <<"G", "E", "T">>
get == <<"g", "e", "t">>
POST == <<"P", "O", "S", "T">>
post == <<"p", "o", "s", "t">>
ContentType == <<"C", "o", "n", "t", "e", "n", "t", "-", "T", "y", "p", "e">>
contenttype == <<"c", "o", "n", "t", "e", "n", "t", "-", "t", "y", "p", "e">>

Keys(dict) == {kv[1] : kv \in dict}

\* MultiDict.__getitem__(key): the value of the first pair with that key
GetItem(md, key) == md[CHOOSE n \in 1..Len(md) :
                         /\ md[n][1] = key
                         /\ \A m \in 1..(n - 1) : md[m][1] # key][2]

\* CIMultiDict.__getitem__(key): the same, keys compared ignoring case
GetItemCI(md, key) == md[CHOOSE n \in 1..Len(md) :
                           /\ ToLower(md[n][1]) = ToLower(key)
                           /\ \A m \in 1..(n - 1) : ToLower(md[m][1]) # ToLower(key)][2]

\* dict(request.rel_url.query): each key as sent, with its first value
Dict(md) == {<<md[n][1], GetItem(md, md[n][1])>> : n \in 1..Len(md)}

\* dict(request.headers): each key in the letter case it was sent in, with
\* the first value of that header
DictCI(md) == {<<md[n][1], GetItemCI(md, md[n][1])>> : n \in 1..Len(md)}

None == [tag |-> "None", val |-> {}]
Some(tag, val) == [tag |-> tag, val |-> val]

\* rule.result: HTTPResult(data, status)
HTTPResult(data, status) == [data |-> data, status |-> status]

\* the dataclass HTTPRule with its defaults
HTTPRule == [method |-> None, path |-> None, query_params |-> None,
             ignore_extra_query_params |-> FALSE, headers |-> None,
             ignore_extra_headers |-> FALSE,
             result |-> HTTPResult("HTTP BACKEND RESULT", 200)]

\* the rules a test can give its backend
RuleClasses ==
    { HTTPRule,
      [HTTPRule EXCEPT !.result = HTTPResult("ANOTHER HTTP BACKEND RESULT", 200)],
      [HTTPRule EXCEPT !.path = Some("str", "/search"),
                       !.result = HTTPResult("found", 200)],
      [HTTPRule EXCEPT !.method = Some("str", post),
                       !.result = HTTPResult("posted", 201)],
      [HTTPRule EXCEPT !.method = Some("str", <<>>),
                       !.result = HTTPResult("no method", 200)],
      [HTTPRule EXCEPT !.method = Some("str", GET),
                       !.path = Some("str", "/other"),
                       !.result = HTTPResult("other", 200)],
      [HTTPRule EXCEPT !.query_params = Some("dict", {<<"q", "vk">>}),
                       !.result = HTTPResult("exact query", 200)],
      [HTTPRule EXCEPT !.query_params = Some("dict", {<<"q", "vk">>}),
                       !.ignore_extra_query_params = TRUE,
                       !.result = HTTPResult("query", 200)],
      [HTTPRule EXCEPT !.query_params = Some("dict", {}),
                       !.result = HTTPResult("no query", 200)],
      [HTTPRule EXCEPT !.query_params = Some("dict", {}),
                       !.ignore_extra_query_params = TRUE,
                       !.result = HTTPResult("any query", 200)],
      [HTTPRule EXCEPT !.query_params = Some("re.Pattern", "some_odd_request"),
                       !.result = HTTPResult("odd", 200)],
      [HTTPRule EXCEPT !.headers = Some("dict", {<<ContentType, "json">>}),
                       !.ignore_extra_headers = TRUE,
                       !.result = HTTPResult("json", 200)],
      [HTTPRule EXCEPT !.headers = Some("dict", {<<contenttype, "json">>}),
                       !.result = HTTPResult("lower json", 200)] }

\* the requests a client can send
Requests ==
    {[method |-> method, path |-> path, query |-> sent[1], headers |-> sent[2]] :
       method \in {GET, get, POST},
       path \in {"/search", "/other"},
       sent \in { << <<>>, <<>> >>,
                  << << <<"q", "vk">> >>, << <<ContentType, "json">> >> >>,
                  << << <<"q", "vk">>, <<"num", "10">> >>, <<>> >>,
                  << << <<"q", "vk">>, <<"q", "ya">> >>,
                     << <<ContentType, "json">> >> >> }}

NoRequest == [method |-> <<>>, path |-> "", query |-> <<>>, headers |-> <<>>]

\* http_backend.py 117-122: what the 404 body tells about the request
IncomingRequestInfo(req) ==
    [method |-> req.method, path |-> req.path, query_params |-> Dict(req.query),
     headers |-> DictCI(req.headers)]

\* a response: web.Response(body, status), or web.json_response(json, status)
Response(body, status) ==
    [status |-> status, body |-> body, json |-> [ERROR |-> "", incoming_request_info |-> IncomingRequestInfo(NoRequest)]]

JsonResponse(json, status) == [status |-> status, body |-> "", json |-> json]

NoResponse == Response("", 0)

(***************************************************************************)
(* schema.Schema(validator, ignore_extra_keys).is_valid(data), for the     *)
(* validators the rules hold: None, a string, a dict of literal keys and   *)
(* values, or an object compared by equality.                              *)
(***************************************************************************)
\* variant: extra keys of the data are always ignored
DictIsValid_Tolerant(validator, ignore_extra_keys, data) ==
    \A kv \in validator : kv \in data

\* a dict validator: every key of the validator is in the data with an equal
\* value, and the data has no other key unless ignore_extra_keys
DictIsValid(validator, ignore_extra_keys, data) ==
    /\ \A kv \in validator : kv \in data
    /\ ignore_extra_keys \/ Keys(data) \subseteq Keys(validator)

\* Schema(attr, ...).is_valid(data) where data is None when attr is None
\* (the rule methods pass None then), a str, or a dict
IsValid(attr, ignore_extra_keys, dataTag, data) ==
    CASE attr.tag = "None" -> dataTag = "None"
      [] attr.tag = "str" -> dataTag = "str" /\ attr.val = data
      [] attr.tag = "dict" -> dataTag = "dict" /\ DictIsValid(attr.val, ignore_extra_keys, data)
      [] OTHER -> FALSE

\* http_backend.py 40-43
method_mathes(rule, req) ==
    IF rule.method.tag = "None"
      THEN TRUE
      ELSE ToLower(req.method) = ToLower(rule.method.val)

\* variant: a rule with a string path matches a request on any path
path_matches_Any(rule, req) == rule.path.tag \in {"None", "str"}

\* http_backend.py 45-48
path_matches(rule, req) ==
    IF rule.path.tag = "None"
      THEN IsValid(rule.path, FALSE, "None", {})
      ELSE IsValid(rule.path, FALSE, "str", req.path)

\* http_backend.py 50-62
query_params_match(rule, req) ==
    IF rule.query_params.tag = "None"
      THEN IsValid(rule.query_params, rule.ignore_extra_query_params, "None", {})
      ELSE IsValid(rule.query_params, rule.ignore_extra_query_params, "dict",
                   Dict(req.query))

\* http_backend.py 64-72
headers_match(rule, req) ==
    IF rule.headers.tag = "None"
      THEN IsValid(rule.headers, rule.ignore_extra_headers, "None", {})
      ELSE IsValid(rule.headers, rule.ignore_extra_headers, "dict",
                   DictCI(req.headers))

\* variant: one matching attribute is enough
matches_AnyOf(rule, req) ==
    \/ method_mathes(rule, req)
    \/ path_matches(rule, req)
    \/ query_params_match(rule, req)
    \/ headers_match(rule, req)

\* http_backend.py 32-38
matches(rule, req) ==
    /\ method_mathes(rule, req)
    /\ path_matches(rule, req)
    /\ query_params_match(rule, req)
    /\ headers_match(rule, req)

\* http_results.py 24-25: HTTPResult.process
process(result, req) == Response(result.data, result.status)

\* variant: a request no rule matched gets the default result
NoMatchingRule_DefaultResult(req) == process(HTTPRule.result, req)

\* http_backend.py 117-127: the answer when no rule matched
NoMatchingRule(req) ==
    JsonResponse([ERROR |-> "No matching rule found for incoming request",
                  incoming_request_info |-> IncomingRequestInfo(req)], 404)

\* variant: the loop keeps going after a match, so the last match answers
RECURSIVE handle_LastMatch(_, _, _)
handle_LastMatch(rs, req, n) ==
    IF n > Len(rs)
      THEN [response |-> NoMatchingRule(req), consulted |-> <<>>, processed |-> <<>>]
      ELSE LET rest == handle_LastMatch(rs, req, n + 1) IN
           IF matches(rs[n], req) /\ rest.processed = <<>>
             THEN [response |-> process(rs[n].result, req),
                   consulted |-> <<n>> \o rest.consulted, processed |-> <<n>>]
             ELSE [rest EXCEPT !.consulted = <<n>> \o @]

\* http_backend.py 113-127: handle(request), the loop from rule n on
RECURSIVE handle(_, _, _)
handle(rs, req, n) ==
    IF n > Len(rs)
      THEN [response |-> NoMatchingRule(req), consulted |-> <<>>, processed |-> <<>>]
      ELSE IF matches(rs[n], req)
             THEN [response |-> process(rs[n].result, req),
                   consulted |-> <<n>>, processed |-> <<n>>]
             ELSE [handle(rs, req, n + 1) EXCEPT !.consulted = <<n>> \o @]

HttpIdle ==
    /\ request = NoRequest
    /\ response = NoResponse
    /\ consulted = <<>>
    /\ processed = <<>>

\* variant: a rule that has just answered is used up, and the next request is
\* matched against the rules after it
Handle_ConsumeRule ==
    \E req \in Requests :
      LET from == IF processed = <<>> THEN 1 ELSE processed[1] + 1
          h == handle(rules, req, from)
      IN /\ request' = req
         /\ response' = h.response
         /\ consulted' = h.consulted
         /\ processed' = h.processed
         /\ UNCHANGED <<rules, orchVars, grpcVars, logVars, filterVars, appVars, tcpVars, spyVars>>

\* the backend serves one request
Handle ==
    \E req \in Requests :
      LET h == handle(rules, req, 1) IN
        /\ request' = req
        /\ response' = h.response
        /\ consulted' = h.consulted
        /\ processed' = h.processed
        /\ UNCHANGED <<rules, orchVars, grpcVars, logVars, filterVars, appVars, tcpVars, spyVars>>

NextHTTP == Handle

(***************************************************************************)
(* gRPC backend (grpc_backend.py): rules, protobuf messages, the handler   *)
(* of the interceptor.                                                     *)
(*                                                                         *)
(* The raw request is the wire form of a message: a sequence of            *)
(* <<field number, payload>> pairs.  A message class declares its fields   *)
(* as <<number, name, type>>; a decoded message holds the class it was     *)
(* decoded with and the fields that are set, by name.                      *)
(***************************************************************************)
Lookup == <<"L", "o", "o", "k", "u", "p">>
lookup == <<"l", "o", "o", "k", "u", "p">>
List == <<"L", "i", "s", "t">>

\* str.casefold(), for the ASCII letters method names are made of
CaseFold(str) == ToLower(str)

\* the message classes the rules of a test name
LookupRequest == [name |-> "LookupRequest", fields |-> {<<1, "id", "string">>}]
ListRequest == [name |-> "ListRequest",
                fields |-> {<<1, "name", "string">>, <<2, "id", "string">>}]
Envelope == [name |-> "Envelope", fields |-> {<<1, "inner", "message">>}]

NoMessage == [cls |-> "", fields |-> {}]

\* request_msg_cls.FromString(request) raises DecodeError: a payload that is
\* the text of a string field does not parse as the embedded message the
\* class declares under that number
DecodeError(cls, raw) ==
    \E n \in 1..Len(raw) :
      \E f \in cls.fields : f[1] = raw[n][1] /\ f[3] = "message"

\* request_msg_cls.FromString(request): the fields the class declares, each
\* with the payload sent last under its number; other numbers are unknown
\* fields and are not listed
FromString(cls, raw) ==
    [cls |-> cls.name,
     fields |-> {<<f[2], raw[n][2]>> :
                   <<f, n>> \in {fn \in cls.fields \X (1..Len(raw)) :
                                  /\ fn[1][1] = raw[fn[2]][1]
                                  /\ \A m \in (fn[2] + 1)..Len(raw) :
                                       raw[m][1] # fn[1][1]}}]

\* grpc_backend.py 38: {field[0].name: field[1] for field in ListFields()}
ListFields(message) == message.fields

\* rule.output_handler(request_message): the bytes the handler of that name
\* makes of the message
OutputHandler(name, message) == [handler |-> name, message |-> message]

NoBytes == OutputHandler("", NoMessage)

\* the dataclass GRPCRule with its defaults
GRPCRule(request_msg_cls, output_handler) ==
    [request_msg_cls |-> request_msg_cls, output_handler |-> output_handler,
     grpc_method |-> None, message_args |-> None,
     ignore_extra_message_args |-> FALSE]

\* the rules a test can give its backend
GRPCRuleClasses ==
    { GRPCRule(LookupRequest, "any"),
      [GRPCRule(LookupRequest, "lookup") EXCEPT
         !.grpc_method = Some("str", Lookup)],
      [GRPCRule(LookupRequest, "lookup 42") EXCEPT
         !.grpc_method = Some("str", Lookup),
         !.message_args = Some("dict", {<<"id", "42">>})],
      [GRPCRule(ListRequest, "list 7") EXCEPT
         !.grpc_method = Some("str", List),
         !.message_args = Some("dict", {<<"id", "7">>}),
         !.ignore_extra_message_args = TRUE],
      [GRPCRule(ListRequest, "exactly 7") EXCEPT
         !.message_args = Some("dict", {<<"id", "7">>})],
      [GRPCRule(LookupRequest, "no fields") EXCEPT
         !.message_args = Some("dict", {})],
      [GRPCRule(LookupRequest, "no method") EXCEPT
         !.grpc_method = Some("str", <<>>)],
      GRPCRule(Envelope, "envelope") }

\* the calls a client can make: a method and the wire form of a message
Calls ==
    [method : {Lookup, lookup, List},
     request : {<<>>, << <<1, "42">> >>, << <<1, "7">> >>,
                << <<1, "42">>, <<2, "7">> >>}]

NoCall == [method |-> <<>>, request |-> <<>>]

\* how _handler ends: it returns bytes, aborts the call, or raises
Returned(bytes) == [kind |-> "return", code |-> "", details |-> "", bytes |-> bytes]
Aborted(code, details) ==
    [kind |-> "abort", code |-> code, details |-> details, bytes |-> NoBytes]
Raised(exception) ==
    [kind |-> "raise", code |-> exception, details |-> "", bytes |-> NoBytes]
NoOutcome == [kind |-> "none", code |-> "", details |-> "", bytes |-> NoBytes]

\* variant: the methods are compared as they are
method_matches_Exact(rule, method) ==
    IF rule.grpc_method.tag = "None"
      THEN TRUE
      ELSE method = rule.grpc_method.val

\* grpc_backend.py 28-31
method_matches(rule, method) ==
    IF rule.grpc_method.tag = "None"
      THEN TRUE
      ELSE CaseFold(method) = CaseFold(rule.grpc_method.val)

\* variant: the rule's ignore_extra_message_args is not passed on, extra
\* fields are always ignored
message_args_match_IgnoreExtra(rule, message) ==
    IF rule.message_args.tag = "None"
      THEN TRUE
      ELSE DictIsValid(rule.message_args.val, TRUE, ListFields(message))

\* grpc_backend.py 33-40
message_args_match(rule, message) ==
    IF rule.message_args.tag = "None"
      THEN TRUE
      ELSE DictIsValid(rule.message_args.val, rule.ignore_extra_message_args,
                       ListFields(message))

\* the steps of one turn of the loop up to step number `last`
Steps(n, last) ==
    SubSeq(<< <<"method_matches", n>>, <<"FromString", n>>,
              <<"message_args_match", n>>, <<"output_handler", n>> >>, 1, last)

\* grpc_backend.py 69-82: _handler(handler_call_details, request, context),
\* the loop from rule n on
RECURSIVE handler(_, _, _)
handler(rs, c, n) ==
    IF n > Len(rs)
      THEN [trail |-> << <<"abort", 0>> >>,
            outcome |-> Aborted("INVALID_ARGUMENT", "no matched GRPC rules found")]
      ELSE IF ~method_matches(rs[n], c.method)
        THEN [handler(rs, c, n + 1) EXCEPT !.trail = Steps(n, 1) \o @]
      ELSE IF DecodeError(rs[n].request_msg_cls, c.request)
        THEN [trail |-> Steps(n, 2), outcome |-> Raised("DecodeError")]
      ELSE LET request_message == FromString(rs[n].request_msg_cls, c.request) IN
        IF message_args_match(rs[n], request_message)
          THEN [trail |-> Steps(n, 4),
                outcome |-> Returned(OutputHandler(rs[n].output_handler,
                                                   request_message))]
          ELSE [handler(rs, c, n + 1) EXCEPT !.trail = Steps(n, 3) \o @]

GrpcIdle ==
    /\ grpc_call = NoCall
    /\ trail = <<>>
    /\ outcome = NoOutcome

\* the backend serves one unary-unary call
GrpcHandle ==
    \E c \in Calls :
      LET h == handler(grpc_rules, c, 1) IN
        /\ grpc_call' = c
        /\ trail' = h.trail
        /\ outcome' = h.outcome
        /\ UNCHANGED <<grpc_rules, orchVars, httpVars, logVars, filterVars, appVars, tcpVars, spyVars>>

NextGRPC == GrpcHandle

(***************************************************************************)
(* LogsStorage (api.py 117-206) over a queue.Queue, with a producer that   *)
(* puts records on the queue.  The loops of clear_logs_queue and           *)
(* collect_from_queue take one get_nowait() per step, so that puts         *)
(* interleave with them.                                                   *)
(***************************************************************************)
\* the log records a worker emits
\* (a message is the sequence of its words, so that a pattern can match at
\* its start or further on)
LogRecords ==
    { [levelname |-> "INFO", name |-> "access",
       message |-> <<"Start", "serving", "on", "8080">>],
      [levelname |-> "ERROR", name |-> "app", message |-> <<"boom">>] }

\* a compiled pattern: the words `lit`, after a leading ".*" when `lead`
Pattern(lead, lit) == [lead |-> lead, lit |-> lit]

\* the patterns a test looks for: "Start serving", "serving", ".*8080", "boom"
Patterns ==
    { Pattern(FALSE, <<"Start", "serving">>), Pattern(FALSE, <<"serving">>),
      Pattern(TRUE, <<"8080">>), Pattern(FALSE, <<"boom">>) }

\* the arguments of has_log_record
Queries == [pattern : Patterns, level : {"INFO", "ERROR"}, collect : BOOLEAN]

NoQuery == [pattern |-> Pattern(FALSE, <<>>), level |-> "", collect |-> FALSE]

NoFound == [query |-> NoQuery, value |-> "none"]

\* queue and buffer when collect_from_queue is called, and the puts so far
Snapshot == [queue |-> logs_queue, storage |-> logs_storage, puts |-> Len(emitted)]

NoSnapshot == [queue |-> <<>>, storage |-> <<>>, puts |-> 0]

\* Queue.get_nowait() raises Empty
Empty == logs_queue = <<>>

\* the ids of the records of a queue or buffer
Ids(records) == {records[n].id : n \in 1..Len(records)}

LogsIdle ==
    /\ logs_queue = <<>>
    /\ logs_storage = <<>>
    /\ op = "idle"
    /\ scope = "out"
    /\ exitWith = ""
    /\ emitted = <<>>
    /\ atEnter = [queue |-> <<>>, storage |-> <<>>]
    /\ calledSince = {}
    /\ query = NoQuery
    /\ found = NoFound
    /\ atCall = NoSnapshot

\* a worker's logging handler: logs_queue.put(record)
Put ==
    /\ Len(emitted) < MaxPuts
    /\ \E r \in LogRecords :
         /\ logs_queue' = Append(logs_queue, [id |-> Len(emitted) + 1, record |-> r])
         /\ emitted' = Append(emitted, [record |-> r, scope |-> scope])
    /\ UNCHANGED <<logs_storage, op, scope, exitWith, atEnter, calledSince, query, found, atCall, orchVars,
                   httpVars, grpcVars, filterVars, appVars, tcpVars, spyVars>>

\* variant: __enter__ returns without clearing the queue
Enter_NoClear ==
    /\ op = "idle"
    /\ scope = "out"
    /\ scope' = "in"
    /\ atEnter' = [queue |-> logs_queue, storage |-> logs_storage]
    /\ calledSince' = {}
    /\ UNCHANGED <<logs_queue, logs_storage, op, exitWith, emitted, query, found, atCall, orchVars, httpVars, grpcVars, filterVars, appVars, tcpVars, spyVars>>

\* api.py 136-139: __enter__ calls clear_logs_queue
Enter ==
    /\ op = "idle"
    /\ scope = "out"
    /\ scope' = "entering"
    /\ op' = "clear_logs_queue"
    /\ atEnter' = [queue |-> logs_queue, storage |-> logs_storage]
    /\ calledSince' = {}
    /\ UNCHANGED <<logs_queue, logs_storage, exitWith, emitted, query, found, atCall, orchVars, httpVars, grpcVars, filterVars, appVars, tcpVars, spyVars>>

\* variant: __exit__ returns without collecting
Exit_NoCollect ==
    /\ op = "idle"
    /\ scope = "in"
    /\ \E how \in {"return", "raise"} : exitWith' = how
    /\ scope' = "exited"
    /\ UNCHANGED <<logs_queue, logs_storage, op, emitted, atEnter, calledSince,
                   query, found, atCall, orchVars, httpVars, grpcVars, filterVars, appVars, tcpVars, spyVars>>

\* api.py 141-145: the body returns or raises, and __exit__ calls
\* collect_from_queue
Exit ==
    /\ op = "idle"
    /\ scope = "in"
    /\ \E how \in {"return", "raise"} : exitWith' = how
    /\ scope' = "exiting"
    /\ op' = "collect_from_queue"
    /\ atCall' = Snapshot
    /\ UNCHANGED <<logs_queue, logs_storage, emitted, atEnter, calledSince, query, found, orchVars,
                   httpVars, grpcVars, filterVars, appVars, tcpVars, spyVars>>

\* the test calls clear_logs_queue or collect_from_queue itself
CallMethod ==
    /\ op = "idle"
    /\ scope \in {"out", "in", "exited"}
    /\ \E m \in {"clear_logs_queue", "collect_from_queue"} :
         /\ op' = m
         /\ atCall' = IF m = "collect_from_queue" THEN Snapshot ELSE atCall
         /\ calledSince' = IF scope = "out" THEN calledSince ELSE calledSince \cup {m}
    /\ UNCHANGED <<logs_queue, logs_storage, scope, exitWith, emitted, atEnter,
                   query, found, orchVars, httpVars, grpcVars, filterVars, appVars, tcpVars, spyVars>>

\* the method in progress returns; an __enter__ or __exit__ in progress
\* returns with it
Return ==
    /\ op' = "idle"
    /\ scope' = CASE scope = "entering" -> "in"
                  [] scope = "exiting" -> "exited"
                  [] OTHER -> scope

\* variant: each record taken from the queue is kept in the buffer
ClearLogsQueue_IntoStorage ==
    /\ op = "clear_logs_queue"
    /\ IF Empty
         THEN Return /\ UNCHANGED <<logs_queue, logs_storage>>
         ELSE /\ logs_queue' = Tail(logs_queue)
              /\ logs_storage' = Append(logs_storage, Head(logs_queue))
              /\ UNCHANGED <<op, scope>>
    /\ UNCHANGED <<exitWith, emitted, atEnter, calledSince, query, found, atCall, orchVars,
                   httpVars, grpcVars, filterVars, appVars, tcpVars, spyVars>>

\* api.py 147-153: clear_logs_queue, one turn of its loop
ClearLogsQueue ==
    /\ op = "clear_logs_queue"
    /\ IF Empty
         THEN Return /\ UNCHANGED logs_queue
         ELSE logs_queue' = Tail(logs_queue) /\ UNCHANGED <<op, scope>>
    /\ UNCHANGED <<logs_storage, exitWith, emitted, atEnter, calledSince, query, found, atCall, orchVars,
                   httpVars, grpcVars, filterVars, appVars, tcpVars, spyVars>>

\* variant: each record taken from the queue goes to the front of the buffer
CollectFromQueue_Prepend ==
    /\ op = "collect_from_queue"
    /\ IF Empty
         THEN /\ IF query = NoQuery
                   THEN Return
                   ELSE op' = "filter_logs" /\ UNCHANGED scope
              /\ atCall' = IF query = NoQuery THEN NoSnapshot ELSE atCall
              /\ UNCHANGED <<logs_queue, logs_storage>>
         ELSE /\ logs_storage' = <<Head(logs_queue)>> \o logs_storage
              /\ logs_queue' = Tail(logs_queue)
              /\ UNCHANGED <<op, scope, atCall>>
    /\ UNCHANGED <<exitWith, emitted, atEnter, calledSince, query, found, orchVars,
                   httpVars, grpcVars, filterVars, appVars, tcpVars, spyVars>>

\* variant: the queue hands out its newest record first
CollectFromQueue_Lifo ==
    /\ op = "collect_from_queue"
    /\ IF Empty
         THEN /\ IF query = NoQuery
                   THEN Return
                   ELSE op' = "filter_logs" /\ UNCHANGED scope
              /\ atCall' = IF query = NoQuery THEN NoSnapshot ELSE atCall
              /\ UNCHANGED <<logs_queue, logs_storage>>
         ELSE /\ logs_storage' = Append(logs_storage, logs_queue[Len(logs_queue)])
              /\ logs_queue' = SubSeq(logs_queue, 1, Len(logs_queue) - 1)
              /\ UNCHANGED <<op, scope, atCall>>
    /\ UNCHANGED <<exitWith, emitted, atEnter, calledSince, query, found, orchVars,
                   httpVars, grpcVars, filterVars, appVars, tcpVars, spyVars>>

\* api.py 158-164: collect_from_queue, one turn of its loop; when the loop
\* ends inside has_log_record, that method goes on (api.py 178)
CollectFromQueue ==
    /\ op = "collect_from_queue"
    /\ IF Empty
         THEN /\ IF query = NoQuery
                   THEN Return
                   ELSE op' = "filter_logs" /\ UNCHANGED scope
              /\ atCall' = IF query = NoQuery THEN NoSnapshot ELSE atCall
              /\ UNCHANGED <<logs_queue, logs_storage>>
         ELSE /\ logs_storage' = Append(logs_storage, Head(logs_queue))
              /\ logs_queue' = Tail(logs_queue)
              /\ UNCHANGED <<op, scope, atCall>>
    /\ UNCHANGED <<exitWith, emitted, atEnter, calledSince, query, found, orchVars, httpVars, grpcVars, filterVars, appVars, tcpVars, spyVars>>

\* api.py 155-156: clear_logs_storage
ClearLogsStorage ==
    /\ op = "idle"
    /\ scope \in {"out", "in", "exited"}
    /\ logs_storage' = <<>>
    /\ calledSince' = IF scope = "out" THEN calledSince
                                       ELSE calledSince \cup {"clear_logs_storage"}
    /\ UNCHANGED <<logs_queue, op, scope, exitWith, emitted, atEnter, query, found, atCall, orchVars,
                   httpVars, grpcVars, filterVars, appVars, tcpVars, spyVars>>

\* the records a buffer is filtered from: every level with every logger name
FilterRecords ==
    { [levelname |-> l, name |-> n, message |-> <<"boom">>] :
        l \in {"INFO", "ERROR"}, n \in {"access", "app"} }

\* the arguments of a filter_logs call: each of level and name given or None
FilterArgs ==
    [level : {None, Some("str", "INFO"), Some("str", "ERROR")},
     name  : {None, Some("str", "access"), Some("str", "app")}]

NoFilter == [level |-> Some("no call", {}), name |-> Some("no call", {})]

\* no filter_logs call yet
FilterIdle ==
    /\ filterArgs = NoFilter
    /\ filtered = <<>>

\* variant: a record passes when its level or its name is the one asked for
filter_logs_AnyOf(level, name) ==
    SelectSeq(logs_storage,
              LAMBDA log : \/ level.tag = "None" /\ name.tag = "None"
                           \/ level.tag # "None" /\ log.record.levelname = level.val
                           \/ name.tag # "None" /\ log.record.name = name.val)

\* api.py 183-189: filter_logs(level, name); an argument with tag "None" does
\* not filter
filter_logs(level, name) ==
    LET byLevel == IF level.tag = "None"
                     THEN logs_storage
                     ELSE SelectSeq(logs_storage,
                                    LAMBDA log : log.record.levelname = level.val)
    IN IF name.tag = "None"
         THEN byLevel
         ELSE SelectSeq(byLevel, LAMBDA log : log.record.name = name.val)

\* the words of `lit` are the first words of `message`
StartsWith(message, lit) ==
    Len(lit) <= Len(message) /\ SubSeq(message, 1, Len(lit)) = lit

\* re.Pattern.match(message): the pattern matches at the start of the
\* message; a leading ".*" lets its words start anywhere
match(message_pattern, message) ==
    IF message_pattern.lead
      THEN \E from \in 1..(Len(message) + 1) :
             StartsWith(SubSeq(message, from, Len(message)), message_pattern.lit)
      ELSE StartsWith(message, message_pattern.lit)

\* api.py 178-181: the search of has_log_record
has_log_record(message_pattern, level) ==
    LET logs == filter_logs(Some("str", level), None) IN
      \E n \in 1..Len(logs) : match(message_pattern, logs[n].record.message)

\* api.py 166-177: has_log_record(message_pattern, level, collect) is called
HasLogRecord ==
    /\ op = "idle"
    /\ scope \in {"out", "in", "exited"}
    /\ \E q \in Queries :
         /\ query' = q
         /\ op' = IF q.collect THEN "collect_from_queue" ELSE "filter_logs"
         /\ atCall' = IF q.collect THEN Snapshot ELSE atCall
         /\ calledSince' = IF scope = "out" \/ ~q.collect
                             THEN calledSince
                             ELSE calledSince \cup {"collect_from_queue"}
    /\ found' = NoFound
    /\ UNCHANGED <<logs_queue, logs_storage, scope, exitWith, emitted, atEnter,
                   orchVars, httpVars, grpcVars, filterVars, appVars, tcpVars, spyVars>>

\* variant: the search looks at the records of every level
HasLogRecordSearch_AnyLevel ==
    /\ op = "filter_logs"
    /\ found' = [query |-> query,
                 value |-> IF \E n \in 1..Len(logs_storage) :
                                match(query.pattern, logs_storage[n].record.message)
                             THEN "True" ELSE "False"]
    /\ op' = "idle"
    /\ query' = NoQuery
    /\ atCall' = NoSnapshot
    /\ UNCHANGED <<logs_queue, logs_storage, scope, exitWith, emitted, atEnter,
                   calledSince, orchVars, httpVars, grpcVars, filterVars, appVars, tcpVars, spyVars>>

\* api.py 178-181: has_log_record searches the buffer and returns
HasLogRecordSearch ==
    /\ op = "filter_logs"
    /\ found' = [query |-> query,
                 value |-> IF has_log_record(query.pattern, query.level)
                             THEN "True" ELSE "False"]
    /\ op' = "idle"
    /\ query' = NoQuery
    /\ atCall' = NoSnapshot
    /\ UNCHANGED <<logs_queue, logs_storage, scope, exitWith, emitted, atEnter,
                   calledSince, orchVars, httpVars, grpcVars, filterVars, appVars, tcpVars, spyVars>>

NextLogs ==
    \/ Put
    \/ Enter
    \/ Exit
    \/ CallMethod
    \/ ClearLogsQueue
    \/ CollectFromQueue
    \/ ClearLogsStorage

\* api.py 183-189: a call of filter_logs(level, name) and its return value
FilterLogs ==
    /\ op = "idle"
    /\ \E args \in FilterArgs :
         /\ filterArgs' = args
         /\ filtered' = filter_logs(args.level, args.name)
    /\ UNCHANGED <<logVars, orchVars, httpVars, grpcVars, appVars, tcpVars, spyVars>>

NextFilter == FilterLogs

\* a LogsStorage whose methods are called one by one, outside a with statement
NextQuery ==
    \/ Put
    \/ CallMethod
    \/ ClearLogsQueue
    \/ CollectFromQueue
    \/ ClearLogsStorage
    \/ HasLogRecord
    \/ HasLogRecordSearch

(***************************************************************************)
(* TCP backend (tcp_backend.py): handle_connection on one connection.      *)
(* A byte string is a sequence of runs [byte, n] of n equal bytes, no run  *)
(* empty and no two neighbours of the same byte.                           *)
(***************************************************************************)
\* the n of reader.read(n)
ReadSize == 1024

\* what a client sends at a time: one byte, just under, exactly and just
\* over ReadSize bytes
Segments ==
    { [byte |-> "a", n |-> 1], [byte |-> "b", n |-> ReadSize - 1],
      [byte |-> "a", n |-> ReadSize], [byte |-> "b", n |-> ReadSize + 1] }

\* len(bytes)
RECURSIVE Size(_)
Size(runs) == IF runs = <<>> THEN 0 ELSE Head(runs).n + Size(Tail(runs))

\* bytes + bytes
Concat(left, right) ==
    IF left = <<>> THEN right
    ELSE IF right = <<>> THEN left
    ELSE IF left[Len(left)].byte = Head(right).byte
           THEN SubSeq(left, 1, Len(left) - 1)
                  \o <<[byte |-> Head(right).byte, n |-> left[Len(left)].n + Head(right).n]>>
                  \o Tail(right)
           ELSE left \o right

\* bytes[:n]
RECURSIVE Take(_, _)
Take(runs, n) ==
    IF n = 0 \/ runs = <<>> THEN <<>>
    ELSE IF Head(runs).n <= n
           THEN <<Head(runs)>> \o Take(Tail(runs), n - Head(runs).n)
           ELSE <<[Head(runs) EXCEPT !.n = n]>>

\* bytes[n:]
RECURSIVE Drop(_, _)
Drop(runs, n) ==
    IF n = 0 \/ runs = <<>> THEN runs
    ELSE IF Head(runs).n <= n
           THEN Drop(Tail(runs), n - Head(runs).n)
           ELSE <<[Head(runs) EXCEPT !.n = @ - n]>> \o Tail(runs)

\* the bytes of a sequence of segments
RECURSIVE Stream(_)
Stream(segments) ==
    IF segments = <<>> THEN <<>>
    ELSE Concat(<<Head(segments)>>, Stream(Tail(segments)))

\* no connection yet
TcpIdle ==
    /\ conn_pc = "none"
    /\ segments_sent = <<>>
    /\ client_eof = FALSE
    /\ lost = FALSE
    /\ buffer = <<>>
    /\ read_data = <<>>
    /\ written = <<>>
    /\ calls = <<>>

\* tcp_backend.py 18: a client connects and the server calls
\* handle_connection(reader, writer)
Connect ==
    /\ conn_pc = "none"
    /\ conn_pc' = "read"
    /\ UNCHANGED <<segments_sent, client_eof, lost, buffer, read_data, written, calls, orchVars,
                   httpVars, grpcVars, logVars, filterVars, appVars, spyVars>>

\* the client sends a segment, which the transport feeds to the reader
ClientSend ==
    /\ conn_pc \in {"read", "write", "drain", "close"}
    /\ ~client_eof /\ ~lost
    /\ Len(segments_sent) < MaxSegments
    /\ \E segment \in Segments :
         /\ segments_sent' = Append(segments_sent, segment)
         /\ buffer' = Concat(buffer, <<segment>>)
    /\ UNCHANGED <<conn_pc, client_eof, lost, read_data, written, calls, orchVars, httpVars,
                   grpcVars, logVars, filterVars, appVars, spyVars>>

\* the client closes its sending side: the reader is fed EOF
ClientEOF ==
    /\ conn_pc \in {"read", "write", "drain", "close"}
    /\ ~client_eof /\ ~lost
    /\ client_eof' = TRUE
    /\ UNCHANGED <<conn_pc, segments_sent, lost, buffer, read_data, written, calls, orchVars, httpVars,
                   grpcVars, logVars, filterVars, appVars, spyVars>>

\* the connection is reset: the reader gets the exception
ClientReset ==
    /\ conn_pc \in {"read", "write", "drain", "close"}
    /\ ~lost
    /\ lost' = TRUE
    /\ UNCHANGED <<conn_pc, segments_sent, client_eof, buffer, read_data, written, calls, orchVars,
                   httpVars, grpcVars, logVars, filterVars, appVars, spyVars>>

\* tcp_backend.py 27: data = await reader.read(1024). The call waits for a
\* byte or EOF and returns at most 1024 of the buffered bytes (none at EOF);
\* it raises when the connection was reset.
Read ==
    /\ conn_pc = "read"
    /\ lost \/ client_eof \/ buffer # <<>>
    /\ calls' = Append(calls, "read")
    /\ IF lost
         THEN conn_pc' = "failed" /\ UNCHANGED <<read_data, buffer>>
         ELSE /\ read_data' = Take(buffer, ReadSize)
              /\ buffer' = Drop(buffer, ReadSize)
              /\ conn_pc' = "write"
    /\ UNCHANGED <<segments_sent, client_eof, lost, written, orchVars, httpVars, grpcVars, logVars,
                   filterVars, appVars, spyVars>>

\* tcp_backend.py 29: writer.write(data)
Write ==
    /\ conn_pc = "write"
    /\ calls' = Append(calls, "write")
    /\ written' = Concat(written, read_data)
    /\ conn_pc' = "drain"
    /\ UNCHANGED <<segments_sent, client_eof, lost, buffer, read_data, orchVars, httpVars, grpcVars,
                   logVars, filterVars, appVars, spyVars>>

\* tcp_backend.py 30: await writer.drain(); it raises when the connection
\* was reset
Drain ==
    /\ conn_pc = "drain"
    /\ calls' = Append(calls, "drain")
    /\ conn_pc' = IF lost THEN "failed" ELSE "close"
    /\ UNCHANGED <<segments_sent, client_eof, lost, buffer, read_data, written, orchVars, httpVars,
                   grpcVars, logVars, filterVars, appVars, spyVars>>

\* variant: the handler reads again while bytes are buffered
Close_ReadAgain ==
    /\ conn_pc = "close"
    /\ IF buffer # <<>>
         THEN conn_pc' = "read" /\ UNCHANGED calls
         ELSE conn_pc' = "closed" /\ calls' = Append(calls, "close")
    /\ UNCHANGED <<segments_sent, client_eof, lost, buffer, read_data, written, orchVars, httpVars,
                   grpcVars, logVars, filterVars, appVars, spyVars>>

\* tcp_backend.py 31: writer.close(), and handle_connection returns
Close ==
    /\ conn_pc = "close"
    /\ calls' = Append(calls, "close")
    /\ conn_pc' = "closed"
    /\ UNCHANGED <<segments_sent, client_eof, lost, buffer, read_data, written, orchVars, httpVars,
                   grpcVars, logVars, filterVars, appVars, spyVars>>

NextTCP ==
    \/ Connect
    \/ ClientSend
    \/ ClientEOF
    \/ ClientReset
    \/ Read
    \/ Write
    \/ Drain
    \/ Close

\* the callables of the object under spy; a real method may call any of
\* them, itself included
SpiedMethods == {"eat_feed", "get_name"}

NoDelivery == [id |-> 0, kind |-> "none", value |-> None]

\* create_object_spy has not been called
SpyIdle ==
    /\ mock_results = [m \in {} |-> <<>>]
    /\ spy_calls = <<>>
    /\ spy_return = [m \in SpiedMethods |-> None]
    /\ spy_exception = [m \in SpiedMethods |-> None]
    /\ frames = <<>>
    /\ invoked = [m \in SpiedMethods |-> 0]
    /\ made = 0
    /\ delivered = NoDelivery

NoApp == [status |-> "none", daemon |-> FALSE, starts |-> 0]

\* NDA_application_manager has not been entered
AppIdle ==
    /\ server_start_timeout_sec = 1
    /\ app_pc = "idle"
    /\ app_manager = "none"
    /\ NDA_app = NoApp
    /\ clock = 0
    /\ app_start = 0
    /\ pollAt = 0
    /\ app_exc = "none"
    /\ errors_traces = <<>>
    /\ body_ran = FALSE

(***************************************************************************)
(* Initial state: a test has built its backends and not yet started them.  *)
(***************************************************************************)
NoProc == [status |-> "not_spawned", at |-> 1, list |-> "None", daemon |-> FALSE,
           starts |-> 0]

OrchIdle ==
    /\ pc = "idle"
    /\ manager = "none"
    /\ listCreated = FALSE
    /\ start_signals_list = <<>>
    /\ backend_processes = <<>>
    /\ backends_processes = <<>>
    /\ k = 1
    /\ now = 0
    /\ start = 0
    /\ exc = "none"
    /\ errSignals = <<>>
    /\ proc = [i \in Idx |-> NoProc]
    /\ signalCalls = [i \in Idx |-> 0]
    /\ sigAt = [i \in Idx |-> NoTime]
    /\ termCalls = [i \in Idx |-> 0]
    /\ joinCalls = [i \in Idx |-> 0]

InitOrch ==
    /\ backends \in SeqUpTo(BackendClasses, MaxBackends)
    /\ start_timeout_sec \in 1..MaxTimeout
    /\ mode \in Modes
    /\ OrchIdle
    /\ rules = <<>>
    /\ HttpIdle
    /\ grpc_rules = <<>>
    /\ GrpcIdle
    /\ LogsIdle
    /\ SpyIdle
    /\ TcpIdle
    /\ AppIdle
    /\ FilterIdle

(***************************************************************************)
(* The controlling process.                                                *)
(***************************************************************************)
\* the test calls start_backends(backends), directly or through
\* backends_manager (which first sets backends_processes = [])
Call ==
    /\ pc = "idle"
    /\ mode \in {"direct", "managed"}
    /\ backends_processes' = <<>>
    /\ pc' = "sb_check"
    /\ UNCHANGED <<httpVars, grpcVars, logVars, filterVars, appVars, tcpVars, spyVars, backends, start_timeout_sec, mode, manager, listCreated,
                   start_signals_list, backend_processes, k, now, start, exc,
                   errSignals, proc, signalCalls, sigAt, termCalls, joinCalls>>

\* api.py 89-90: the duplicate-port check
CheckPorts ==
    /\ pc = "sb_check"
    /\ IF SamePorts
         THEN exc' = "ValueError" /\ pc' = "sb_exit"
         ELSE exc' = exc /\ pc' = "sb_manager"
    /\ UNCHANGED <<httpVars, grpcVars, logVars, filterVars, appVars, tcpVars, spyVars, backends, start_timeout_sec, mode, manager, listCreated,
                   start_signals_list, backend_processes, backends_processes, k, now,
                   start, errSignals, proc, signalCalls, sigAt, termCalls, joinCalls>>

\* api.py 99: manager = multiprocessing.Manager()
CreateManager ==
    /\ pc = "sb_manager"
    /\ manager' = "up"
    /\ pc' = "sb_list"
    /\ UNCHANGED <<httpVars, grpcVars, logVars, filterVars, appVars, tcpVars, spyVars, backends, start_timeout_sec, mode, listCreated,
                   start_signals_list, backend_processes, backends_processes, k, now,
                   start, exc, errSignals, proc, signalCalls, sigAt, termCalls,
                   joinCalls>>

\* api.py 101: start_signals_list = manager.list()
CreateList ==
    /\ pc = "sb_list"
    /\ listCreated' = TRUE
    /\ start_signals_list' = <<>>
    /\ pc' = "sb_spawn"
    /\ UNCHANGED <<httpVars, grpcVars, logVars, filterVars, appVars, tcpVars, spyVars, backends, start_timeout_sec, mode, manager, backend_processes,
                   backends_processes, k, now, start, exc, errSignals, proc,
                   signalCalls, sigAt, termCalls, joinCalls>>

\* variant: the worker process is created without daemon=True
Spawn_NonDaemon ==
    /\ pc = "sb_spawn"
    /\ Len(backend_processes) < Len(backends)
    /\ LET i == Len(backend_processes) + 1 IN
         /\ proc' = [proc EXCEPT ![i] = [status |-> "running", at |-> 1,
                                         list |-> "None", daemon |-> FALSE,
                                         starts |-> @.starts + 1]]
         /\ backend_processes' = Append(backend_processes, i)
    /\ UNCHANGED <<httpVars, grpcVars, logVars, filterVars, appVars, tcpVars, spyVars, backends, start_timeout_sec, mode, pc, manager, listCreated,
                   start_signals_list, backends_processes, k, now, start, exc,
                   errSignals, signalCalls, sigAt, termCalls, joinCalls>>

\* api.py 92-97, 102: start_backend(backend, start_signals_list) for the next
\* backend: a daemon Process targeting backend.run, started once
Spawn ==
    /\ pc = "sb_spawn"
    /\ Len(backend_processes) < Len(backends)
    /\ LET i == Len(backend_processes) + 1 IN
         /\ proc' = [proc EXCEPT ![i] = [status |-> "running", at |-> 1,
                                         list |-> "None", daemon |-> TRUE,
                                         starts |-> @.starts + 1]]
         /\ backend_processes' = Append(backend_processes, i)
    /\ UNCHANGED <<httpVars, grpcVars, logVars, filterVars, appVars, tcpVars, spyVars, backends, start_timeout_sec, mode, pc, manager, listCreated,
                   start_signals_list, backends_processes, k, now, start, exc,
                   errSignals, signalCalls, sigAt, termCalls, joinCalls>>

\* api.py 103: start = monotonic()
TakeStart ==
    /\ pc = "sb_spawn"
    /\ Len(backend_processes) = Len(backends)
    /\ start' = now
    /\ pc' = "sb_loop"
    /\ UNCHANGED <<httpVars, grpcVars, logVars, filterVars, appVars, tcpVars, spyVars, backends, start_timeout_sec, mode, manager, listCreated,
                   start_signals_list, backend_processes, backends_processes, k, now,
                   exc, errSignals, proc, signalCalls, sigAt, termCalls, joinCalls>>

\* api.py 104: the while condition; its else branch is taken when it fails
LoopTest ==
    /\ pc = "sb_loop"
    /\ pc' = IF TimeLeft THEN "sb_len" ELSE "sb_raise"
    /\ UNCHANGED <<httpVars, grpcVars, logVars, filterVars, appVars, tcpVars, spyVars, backends, start_timeout_sec, mode, manager, listCreated,
                   start_signals_list, backend_processes, backends_processes, k, now,
                   start, exc, errSignals, proc, signalCalls, sigAt, termCalls,
                   joinCalls>>

\* variant: a poll that finds a signal missing starts the failed workers again
PollLen_Restart ==
    /\ pc = "sb_len"
    /\ pc' = IF AllStarted THEN "sb_finally" ELSE "sb_loop"
    /\ proc' = [i \in Idx |->
                  IF ~AllStarted /\ proc[i].status = "failed"
                    THEN [proc[i] EXCEPT !.status = "running", !.at = 1,
                                         !.starts = @ + 1]
                    ELSE proc[i]]
    /\ UNCHANGED <<httpVars, grpcVars, logVars, filterVars, appVars, tcpVars, spyVars, backends, start_timeout_sec, mode, manager, listCreated,
                   start_signals_list, backend_processes, backends_processes, k, now,
                   start, exc, errSignals, signalCalls, sigAt, termCalls,
                   joinCalls>>

\* api.py 105-106: one poll of the list's length; break when all have signalled
PollLen ==
    /\ pc = "sb_len"
    /\ pc' = IF AllStarted THEN "sb_finally" ELSE "sb_loop"
    /\ UNCHANGED <<httpVars, grpcVars, logVars, filterVars, appVars, tcpVars, spyVars, backends, start_timeout_sec, mode, manager, listCreated,
                   start_signals_list, backend_processes, backends_processes, k, now,
                   start, exc, errSignals, proc, signalCalls, sigAt, termCalls,
                   joinCalls>>

\* api.py 107-111: raise TimeoutError(... start_signals_list=...)
RaiseTimeout ==
    /\ pc = "sb_raise"
    /\ errSignals' = TimeoutErrorSignals
    /\ exc' = "TimeoutError"
    /\ pc' = "sb_finally"
    /\ UNCHANGED <<httpVars, grpcVars, logVars, filterVars, appVars, tcpVars, spyVars, backends, start_timeout_sec, mode, manager, listCreated,
                   start_signals_list, backend_processes, backends_processes, k, now,
                   start, proc, signalCalls, sigAt, termCalls, joinCalls>>

\* variant: the finally clause also terminates the workers after a timeout
Finally_KillOnTimeout ==
    /\ pc = "sb_finally"
    /\ manager' = "down"
    /\ pc' = "sb_exit"
    /\ IF exc = "TimeoutError"
         THEN /\ proc' = [i \in Idx |->
                           IF proc[i].status = "running"
                             THEN [proc[i] EXCEPT !.status = "terminated"]
                             ELSE proc[i]]
              /\ termCalls' = [i \in Idx |->
                                IF i <= Len(backend_processes) THEN termCalls[i] + 1
                                                               ELSE termCalls[i]]
         ELSE UNCHANGED <<proc, termCalls>>
    /\ UNCHANGED <<httpVars, grpcVars, logVars, filterVars, appVars, tcpVars, spyVars, backends, start_timeout_sec, mode, listCreated,
                   start_signals_list, backend_processes, backends_processes, k, now,
                   start, exc, errSignals, signalCalls, sigAt, joinCalls>>

\* variant: the manager is shut down only when no exception is in flight
Finally_SkipOnTimeout ==
    /\ pc = "sb_finally"
    /\ manager' = IF exc = "none" THEN "down" ELSE manager
    /\ pc' = "sb_exit"
    /\ UNCHANGED <<httpVars, grpcVars, logVars, filterVars, appVars, tcpVars, spyVars, backends, start_timeout_sec, mode, listCreated,
                   start_signals_list, backend_processes, backends_processes, k, now,
                   start, exc, errSignals, proc, signalCalls, sigAt, termCalls,
                   joinCalls>>

\* api.py 112-113: finally: manager.shutdown()
Finally ==
    /\ pc = "sb_finally"
    /\ manager' = "down"
    /\ pc' = "sb_exit"
    /\ UNCHANGED <<httpVars, grpcVars, logVars, filterVars, appVars, tcpVars, spyVars, backends, start_timeout_sec, mode, listCreated,
                   start_signals_list, backend_processes, backends_processes, k, now,
                   start, exc, errSignals, proc, signalCalls, sigAt, termCalls,
                   joinCalls>>

\* api.py 114 and 79-81: control leaves start_backends. A direct caller is
\* done. backends_manager binds the returned handles and yields, or, when
\* start_backends raised, goes to its finally clause with backends_processes
\* still [].
Leave ==
    /\ pc = "sb_exit"
    /\ k' = 1
    /\ IF mode = "direct"
         THEN pc' = "done" /\ UNCHANGED backends_processes
         ELSE IF exc = "none"
                THEN pc' = "bm_body" /\ backends_processes' = backend_processes
                ELSE pc' = "bm_terminate" /\ UNCHANGED backends_processes
    /\ UNCHANGED <<httpVars, grpcVars, logVars, filterVars, appVars, tcpVars, spyVars, backends, start_timeout_sec, mode, manager, listCreated,
                   start_signals_list, backend_processes, now, start, exc,
                   errSignals, proc, signalCalls, sigAt, termCalls, joinCalls>>

\* api.py 80: the body of the with statement returns or raises
Body ==
    /\ pc = "bm_body"
    /\ \E e \in {"none", "BodyError"} : exc' = e
    /\ pc' = "bm_terminate"
    /\ UNCHANGED <<httpVars, grpcVars, logVars, filterVars, appVars, tcpVars, spyVars, backends, start_timeout_sec, mode, manager, listCreated,
                   start_signals_list, backend_processes, backends_processes, k, now,
                   start, errSignals, proc, signalCalls, sigAt, termCalls, joinCalls>>

\* Process.terminate(): SIGTERM ends a live process; a no-op on a dead one
Terminated(p) == IF p.status = "running" THEN [p EXCEPT !.status = "terminated"] ELSE p

\* variant: one loop, each handle is terminated and joined in turn
Terminate_JoinInTurn ==
    /\ pc = "bm_terminate"
    /\ IF k <= Len(backends_processes)
         THEN LET i == backends_processes[k] IN
                /\ proc' = [proc EXCEPT ![i] = Terminated(@)]
                /\ termCalls' = [termCalls EXCEPT ![i] = @ + 1]
                /\ joinCalls' = [joinCalls EXCEPT ![i] = @ + 1]
                /\ k' = k + 1
                /\ pc' = pc
         ELSE /\ k' = 1
              /\ pc' = "done"
              /\ UNCHANGED <<proc, termCalls, joinCalls>>
    /\ UNCHANGED <<httpVars, grpcVars, logVars, filterVars, appVars, tcpVars, spyVars, backends, start_timeout_sec, mode, manager, listCreated,
                   start_signals_list, backend_processes, backends_processes, now,
                   start, exc, errSignals, signalCalls, sigAt>>

\* api.py 82-83: for proc in backends_processes: proc.terminate()
Terminate ==
    /\ pc = "bm_terminate"
    /\ IF k <= Len(backends_processes)
         THEN LET i == backends_processes[k] IN
                /\ proc' = [proc EXCEPT ![i] = Terminated(@)]
                /\ termCalls' = [termCalls EXCEPT ![i] = @ + 1]
                /\ k' = k + 1
                /\ pc' = pc
         ELSE /\ k' = 1
              /\ pc' = "bm_join"
              /\ UNCHANGED <<proc, termCalls>>
    /\ UNCHANGED <<httpVars, grpcVars, logVars, filterVars, appVars, tcpVars, spyVars, backends, start_timeout_sec, mode, manager, listCreated,
                   start_signals_list, backend_processes, backends_processes, now,
                   start, exc, errSignals, signalCalls, sigAt, joinCalls>>

\* api.py 84-85: for proc in backends_processes: proc.join(); join returns
\* once the process has exited
Join ==
    /\ pc = "bm_join"
    /\ IF k <= Len(backends_processes)
         THEN LET i == backends_processes[k] IN
                /\ ~Running(i)
                /\ joinCalls' = [joinCalls EXCEPT ![i] = @ + 1]
                /\ k' = k + 1
                /\ pc' = pc
         ELSE /\ k' = 1
              /\ pc' = "done"
              /\ UNCHANGED joinCalls
    /\ UNCHANGED <<httpVars, grpcVars, logVars, filterVars, appVars, tcpVars, spyVars, backends, start_timeout_sec, mode, manager, listCreated,
                   start_signals_list, backend_processes, backends_processes, now,
                   start, exc, errSignals, proc, signalCalls, sigAt, termCalls>>

\* the monotonic clock advances. Only the polling loop reads it, and only
\* against start, so ticks are modelled while the loop runs and up to the
\* deadline.
Tick ==
    /\ pc \in {"sb_loop", "sb_len"}
    /\ now - start < start_timeout_sec
    /\ now' = now + 1
    /\ UNCHANGED <<httpVars, grpcVars, logVars, filterVars, appVars, tcpVars, spyVars, backends, start_timeout_sec, mode, pc, manager, listCreated,
                   start_signals_list, backend_processes, backends_processes, k,
                   start, exc, errSignals, proc, signalCalls, sigAt, termCalls,
                   joinCalls>>

(***************************************************************************)
(* A worker process (or, standalone, the test's own event loop).           *)
(***************************************************************************)
\* variant: run starts the server without recording the list
Run_NoList(i) ==
    /\ Running(i)
    /\ CallAt(i) = "run"
    /\ proc' = [proc EXCEPT ![i].at = @ + 1]
    /\ UNCHANGED <<httpVars, grpcVars, logVars, filterVars, appVars, tcpVars, spyVars, backends, start_timeout_sec, mode, pc, manager, listCreated,
                   start_signals_list, backend_processes, backends_processes, k, now,
                   start, exc, errSignals, signalCalls, sigAt, termCalls, joinCalls>>

\* abackend.py 22-24: run(start_signals) records the list, then runs _run
Run(i) ==
    /\ Running(i)
    /\ CallAt(i) = "run"
    /\ proc' = [proc EXCEPT ![i].list = "shared", ![i].at = @ + 1]
    /\ UNCHANGED <<httpVars, grpcVars, logVars, filterVars, appVars, tcpVars, spyVars, backends, start_timeout_sec, mode, pc, manager, listCreated,
                   start_signals_list, backend_processes, backends_processes, k, now,
                   start, exc, errSignals, signalCalls, sigAt, termCalls, joinCalls>>

\* a test awaits backend.start_server() itself: run() is skipped and
\* start_signals_list keeps its class default, None (abackend.py 15)
Standalone(i) ==
    /\ mode = "standalone"
    /\ i <= Len(backends)
    /\ proc[i].status = "not_spawned"
    /\ proc' = [proc EXCEPT ![i].status = "running", ![i].at = 2]
    /\ UNCHANGED <<httpVars, grpcVars, logVars, filterVars, appVars, tcpVars, spyVars, backends, start_timeout_sec, mode, pc, manager, listCreated,
                   start_signals_list, backend_processes, backends_processes, k, now,
                   start, exc, errSignals, signalCalls, sigAt, termCalls, joinCalls>>

\* one awaited call of start_server before start_signal: it completes, or it
\* raises and the exception ends the process (abackend.py 30-31)
Setup(i) ==
    /\ Running(i)
    /\ CallAt(i) \notin {"run", "start_signal", "serving"}
    /\ \/ proc' = [proc EXCEPT ![i].at = @ + 1]
       \/ proc' = [proc EXCEPT ![i].status = "failed"]
    /\ UNCHANGED <<httpVars, grpcVars, logVars, filterVars, appVars, tcpVars, spyVars, backends, start_timeout_sec, mode, pc, manager, listCreated,
                   start_signals_list, backend_processes, backends_processes, k, now,
                   start, exc, errSignals, signalCalls, sigAt, termCalls, joinCalls>>

\* variant: start_signal without the None test
StartSignal_Unguarded(i) ==
    /\ Running(i)
    /\ CallAt(i) = "start_signal"
    /\ signalCalls' = [signalCalls EXCEPT ![i] = @ + 1]
    /\ start_signals_list' = Append(start_signals_list, Token(i))
    /\ sigAt' = [sigAt EXCEPT ![i] = now]
    /\ proc' = [proc EXCEPT ![i].at = @ + 1]
    /\ UNCHANGED <<httpVars, grpcVars, logVars, filterVars, appVars, tcpVars, spyVars, backends, start_timeout_sec, mode, pc, manager, listCreated,
                   backend_processes, backends_processes, k, now, start, exc,
                   errSignals, termCalls, joinCalls>>

\* variant: start_signal appends its token twice
StartSignal_Twice(i) ==
    /\ Running(i)
    /\ CallAt(i) = "start_signal"
    /\ signalCalls' = [signalCalls EXCEPT ![i] = @ + 1]
    /\ IF proc[i].list = "None"
         THEN /\ proc' = [proc EXCEPT ![i].at = @ + 1]
              /\ UNCHANGED <<start_signals_list, sigAt>>
         ELSE IF manager = "up"
                THEN /\ start_signals_list' = start_signals_list \o <<Token(i), Token(i)>>
                     /\ sigAt' = [sigAt EXCEPT ![i] = now]
                     /\ proc' = [proc EXCEPT ![i].at = @ + 1]
                ELSE /\ proc' = [proc EXCEPT ![i].status = "failed"]
                     /\ UNCHANGED <<start_signals_list, sigAt>>
    /\ UNCHANGED <<httpVars, grpcVars, logVars, filterVars, appVars, tcpVars, spyVars, backends, start_timeout_sec, mode, pc, manager, listCreated,
                   backend_processes, backends_processes, k, now, start, exc,
                   errSignals, termCalls, joinCalls>>

\* abackend.py 26-28: start_signal(). With no list it does nothing. The
\* append goes through the manager's proxy: it adds the token while the
\* manager is up, and raises in the worker once the manager is shut down.
StartSignal(i) ==
    /\ Running(i)
    /\ CallAt(i) = "start_signal"
    /\ signalCalls' = [signalCalls EXCEPT ![i] = @ + 1]
    /\ IF proc[i].list = "None"
         THEN /\ proc' = [proc EXCEPT ![i].at = @ + 1]
              /\ UNCHANGED <<start_signals_list, sigAt>>
         ELSE IF manager = "up"
                THEN /\ start_signals_list' = Append(start_signals_list, Token(i))
                     /\ sigAt' = [sigAt EXCEPT ![i] = now]
                     /\ proc' = [proc EXCEPT ![i].at = @ + 1]
                ELSE /\ proc' = [proc EXCEPT ![i].status = "failed"]
                     /\ UNCHANGED <<start_signals_list, sigAt>>
    /\ UNCHANGED <<httpVars, grpcVars, logVars, filterVars, appVars, tcpVars, spyVars, backends, start_timeout_sec, mode, pc, manager, listCreated,
                   backend_processes, backends_processes, k, now, start, exc,
                   errSignals, termCalls, joinCalls>>

NextOrch ==
    \/ Call
    \/ CheckPorts
    \/ CreateManager
    \/ CreateList
    \/ Spawn
    \/ TakeStart
    \/ LoopTest
    \/ PollLen
    \/ RaiseTimeout
    \/ Finally
    \/ Leave
    \/ Body
    \/ Terminate
    \/ Join
    \/ Tick
    \/ \E i \in Idx : Run(i)
    \/ \E i \in Idx : Standalone(i)
    \/ \E i \in Idx : Setup(i)
    \/ \E i \in Idx : StartSignal(i)

SpecOrch == InitOrch /\ [][NextOrch]_vars

\* the steps of start_backends itself, api.py 88-114
StartBackendsStep ==
    \/ CheckPorts
    \/ CreateManager
    \/ CreateList
    \/ Spawn
    \/ TakeStart
    \/ LoopTest
    \/ PollLen
    \/ RaiseTimeout
    \/ Finally
    \/ Leave

\* a test that calls start_backends directly
InitStart ==
    /\ InitOrch
    /\ mode = "direct"

NextStart ==
    \/ Call
    \/ StartBackendsStep
    \/ Tick
    \/ \E i \in Idx : Run(i)
    \/ \E i \in Idx : Setup(i)
    \/ \E i \in Idx : StartSignal(i)

\* start_backends runs in the calling process, which keeps executing its own
\* statements, and the monotonic clock keeps advancing; nothing is assumed of
\* the workers, which may stop at any point and never signal or exit
SpecStart ==
    /\ InitStart
    /\ [][NextStart]_vars
    /\ WF_vars(StartBackendsStep)
    /\ WF_vars(Tick)

\* the HTTP backend alone: one backend object with its rules, no request
\* served yet
InitHTTP ==
    /\ backends = <<[kind |-> "HTTP", port |-> 8001]>>
    /\ start_timeout_sec = 1
    /\ mode = "standalone"
    /\ OrchIdle
    /\ rules \in SeqUpTo(RuleClasses, MaxRules)
    /\ HttpIdle
    /\ grpc_rules = <<>>
    /\ GrpcIdle
    /\ LogsIdle
    /\ SpyIdle
    /\ TcpIdle
    /\ AppIdle
    /\ FilterIdle

SpecHTTP == InitHTTP /\ [][NextHTTP]_vars

\* the gRPC backend alone: one interceptor with its rules, no call served
\* yet
InitGRPC ==
    /\ backends = <<[kind |-> "GRPC", port |-> 8002]>>
    /\ start_timeout_sec = 1
    /\ mode = "standalone"
    /\ OrchIdle
    /\ rules = <<>>
    /\ HttpIdle
    /\ grpc_rules \in SeqUpTo(GRPCRuleClasses, MaxRules)
    /\ GrpcIdle
    /\ LogsIdle
    /\ SpyIdle
    /\ TcpIdle
    /\ AppIdle
    /\ FilterIdle

SpecGRPC == InitGRPC /\ [][NextGRPC]_vars

\* no rule, or one rule of the class
OneOrNone(classes) == {<<>>} \cup {<<rule>> : rule \in classes}

\* an HTTP and a gRPC backend, each with no rule or with one rule that
\* constrains at most the method
InitMethods ==
    /\ backends = <<[kind |-> "HTTP", port |-> 8001], [kind |-> "GRPC", port |-> 8002]>>
    /\ start_timeout_sec = 1
    /\ mode = "standalone"
    /\ OrchIdle
    /\ rules \in OneOrNone({r \in RuleClasses : /\ r.path = None
                                               /\ r.query_params = None
                                               /\ r.headers = None})
    /\ HttpIdle
    /\ grpc_rules \in OneOrNone({r \in GRPCRuleClasses : r.message_args = None})
    /\ GrpcIdle
    /\ LogsIdle
    /\ SpyIdle
    /\ TcpIdle
    /\ AppIdle
    /\ FilterIdle

NextMethods == Handle \/ GrpcHandle

SpecMethods == InitMethods /\ [][NextMethods]_vars

\* a LogsStorage just constructed over an empty queue
InitLogs ==
    /\ backends = <<>>
    /\ start_timeout_sec = 1
    /\ mode = "direct"
    /\ OrchIdle
    /\ rules = <<>>
    /\ HttpIdle
    /\ grpc_rules = <<>>
    /\ GrpcIdle
    /\ LogsIdle
    /\ SpyIdle
    /\ TcpIdle
    /\ AppIdle
    /\ FilterIdle

SpecLogs == InitLogs /\ [][NextLogs]_vars

\* the test calls collect_from_queue itself (api.py 158)
CallCollect == CallMethod /\ op' = "collect_from_queue"

\* one LogsStorage on which nothing is ever cleared: producers put, the
\* consumer collects, directly or through has_log_record
NextCollect ==
    \/ Put
    \/ CallCollect
    \/ CollectFromQueue
    \/ HasLogRecord
    \/ HasLogRecordSearch

\* a worker that keeps logging: logs_queue.put(record), again and again; the
\* puts are not numbered, and the records in existence are capped at MaxPuts
KeepPutting ==
    /\ Len(logs_queue) + Len(logs_storage) < MaxPuts
    /\ \E r \in LogRecords :
         logs_queue' = Append(logs_queue, [id |-> 0, record |-> r])
    /\ UNCHANGED <<logs_storage, op, scope, exitWith, emitted, atEnter, calledSince, query, found, atCall,
                   orchVars, httpVars, grpcVars, filterVars, appVars, tcpVars, spyVars>>

\* a LogsStorage, as a context manager and called directly, next to a worker
\* that never stops logging
NextFlood ==
    \/ KeepPutting
    \/ Enter
    \/ Exit
    \/ CallMethod
    \/ ClearLogsQueue
    \/ CollectFromQueue

SpecCollect == InitLogs /\ [][NextCollect]_vars

\* the thread inside one of the two loops goes on running; nothing makes a
\* worker stop or go on logging
SpecFlood ==
    InitLogs /\ [][NextFlood]_vars /\ WF_vars(ClearLogsQueue \/ CollectFromQueue)

SpecQuery == InitLogs /\ [][NextQuery]_vars

\* a LogsStorage after up to MaxPuts records of any level and logger name were
\* put, the oldest of them already collected into the buffer
InitFilter ==
    /\ backends = <<>>
    /\ start_timeout_sec = 1
    /\ mode = "direct"
    /\ OrchIdle
    /\ rules = <<>>
    /\ HttpIdle
    /\ grpc_rules = <<>>
    /\ GrpcIdle
    /\ \E n \in 0..MaxPuts : \E recs \in [1..n -> FilterRecords] : \E j \in 0..n :
         /\ emitted = [i \in 1..n |-> [record |-> recs[i], scope |-> "out"]]
         /\ logs_storage = [i \in 1..j |-> [id |-> i, record |-> recs[i]]]
         /\ logs_queue = [i \in 1..(n - j) |-> [id |-> j + i, record |-> recs[j + i]]]
    /\ op = "idle"
    /\ scope = "out"
    /\ exitWith = ""
    /\ atEnter = [queue |-> <<>>, storage |-> <<>>]
    /\ calledSince = {}
    /\ query = NoQuery
    /\ found = NoFound
    /\ atCall = NoSnapshot
    /\ FilterIdle
    /\ AppIdle
    /\ TcpIdle
    /\ SpyIdle

SpecFilter == InitFilter /\ [][NextFilter]_vars

(***************************************************************************)
(* NDA_application_manager: an application process watched through its log *)
(* records.                                                                *)
(***************************************************************************)
\* the records the application may log: the two of LogRecords and an ERROR
\* record whose message is the one the manager waits for at level INFO
AppRecords ==
    LogRecords \cup
      { [levelname |-> "ERROR", name |-> "app",
         message |-> <<"Start", "serving", "on", "8080">>] }

\* api.py 45-47: has_info_log_record(re.compile(".*Start serving on.*"),
\* collect_new_records_from_queue=True)
StartServing ==
    [pattern |-> Pattern(TRUE, <<"Start", "serving", "on">>), level |-> "INFO",
     collect |-> TRUE]

\* "\n***\n".join(messages)
RECURSIVE join(_)
join(messages) ==
    IF messages = <<>> THEN <<>>
    ELSE IF Len(messages) = 1 THEN messages[1]
    ELSE messages[1] \o <<"***">> \o join(Tail(messages))

\* api.py 50-51: the messages of the buffered ERROR records, joined, or
\* "<empty>" when the joined text is empty
ErrorsTraces ==
    LET logs == filter_logs(Some("str", "ERROR"), None)
        errors == [n \in 1..Len(logs) |-> logs[n].record.message]
    IN IF join(errors) = <<>> THEN <<"<empty>">> ELSE join(errors)

\* api.py 31-39: the manager, its queue and the Process object, daemon=True
AppCreate ==
    /\ app_pc = "idle"
    /\ app_manager' = "up"
    /\ NDA_app' = [status |-> "created", daemon |-> TRUE, starts |-> 0]
    /\ app_pc' = "try"
    /\ UNCHANGED <<server_start_timeout_sec, clock, app_start, pollAt, app_exc, errors_traces,
                   body_ran, logVars, orchVars, httpVars, grpcVars, filterVars, tcpVars, spyVars>>

\* api.py 41-43: LogsStorage(server_log_queue), NDA_app.start(), start = monotonic()
AppStart ==
    /\ app_pc = "try"
    /\ NDA_app' = [NDA_app EXCEPT !.status = "running", !.starts = @ + 1]
    /\ app_start' = clock
    /\ app_pc' = "loop"
    /\ UNCHANGED <<server_start_timeout_sec, app_manager, clock, pollAt, app_exc, errors_traces,
                   body_ran, logVars, orchVars, httpVars, grpcVars, filterVars, tcpVars, spyVars>>

\* api.py 44-45: the while condition; when it holds has_info_log_record is
\* called, which starts with collect_from_queue, and when it fails the else
\* branch is taken
AppLoopTest ==
    /\ app_pc = "loop"
    /\ IF clock - app_start < server_start_timeout_sec
         THEN /\ app_pc' = "poll"
              /\ pollAt' = clock
              /\ query' = StartServing
              /\ op' = "collect_from_queue"
              /\ atCall' = Snapshot
              /\ found' = NoFound
         ELSE /\ app_pc' = "else"
              /\ UNCHANGED <<pollAt, query, op, atCall, found>>
    /\ UNCHANGED <<server_start_timeout_sec, app_manager, NDA_app, clock, app_start, app_exc,
                   errors_traces, body_ran, logs_queue, logs_storage, scope, exitWith,
                   emitted, atEnter, calledSince, orchVars, httpVars, grpcVars,
                   filterVars, tcpVars, spyVars>>

\* variant: the loop is left whatever has_info_log_record returned
AppPolled_AnyResult ==
    /\ app_pc = "poll"
    /\ op = "idle"
    /\ app_pc' = "yield"
    /\ UNCHANGED <<server_start_timeout_sec, app_manager, NDA_app, clock, app_start, pollAt,
                   app_exc, errors_traces, body_ran, logVars, orchVars, httpVars,
                   grpcVars, filterVars, tcpVars, spyVars>>

\* api.py 45-48: has_info_log_record has returned: break when it found the
\* record, else test the loop condition again
AppPolled ==
    /\ app_pc = "poll"
    /\ op = "idle"
    /\ app_pc' = IF found.value = "True" THEN "yield" ELSE "loop"
    /\ UNCHANGED <<server_start_timeout_sec, app_manager, NDA_app, clock, app_start, pollAt,
                   app_exc, errors_traces, body_ran, logVars, orchVars, httpVars,
                   grpcVars, filterVars, tcpVars, spyVars>>

\* api.py 49-55: the else branch raises TimeoutError with the error messages
AppElse ==
    /\ app_pc = "else"
    /\ errors_traces' = ErrorsTraces
    /\ app_exc' = "TimeoutError"
    /\ app_pc' = "shutdown"
    /\ UNCHANGED <<server_start_timeout_sec, app_manager, NDA_app, clock, app_start, pollAt,
                   body_ran, logVars, orchVars, httpVars, grpcVars, filterVars, tcpVars, spyVars>>

\* api.py 57: yield server_log_queue; the caller's body returns or raises
AppYield ==
    /\ app_pc = "yield"
    /\ body_ran' = TRUE
    /\ \E e \in {"none", "BodyError"} : app_exc' = e
    /\ app_pc' = "shutdown"
    /\ UNCHANGED <<server_start_timeout_sec, app_manager, NDA_app, clock, app_start, pollAt,
                   errors_traces, logVars, orchVars, httpVars, grpcVars, filterVars, tcpVars, spyVars>>

\* api.py 58-59: finally: manager.shutdown()
AppShutdown ==
    /\ app_pc = "shutdown"
    /\ app_manager' = "down"
    /\ app_pc' = "terminate"
    /\ UNCHANGED <<server_start_timeout_sec, NDA_app, clock, app_start, pollAt, app_exc,
                   errors_traces, body_ran, logVars, orchVars, httpVars, grpcVars,
                   filterVars, tcpVars, spyVars>>

\* variant: the finally clause goes on to join without terminating
AppTerminate_NoSignal ==
    /\ app_pc = "terminate"
    /\ app_pc' = "join"
    /\ UNCHANGED <<server_start_timeout_sec, app_manager, NDA_app, clock, app_start, pollAt, app_exc,
                   errors_traces, body_ran, logVars, orchVars, httpVars, grpcVars,
                   filterVars, tcpVars, spyVars>>

\* api.py 60: NDA_app.terminate()
AppTerminate ==
    /\ app_pc = "terminate"
    /\ NDA_app' = Terminated(NDA_app)
    /\ app_pc' = "join"
    /\ UNCHANGED <<server_start_timeout_sec, app_manager, clock, app_start, pollAt, app_exc,
                   errors_traces, body_ran, logVars, orchVars, httpVars, grpcVars,
                   filterVars, tcpVars, spyVars>>

\* api.py 61: NDA_app.join() returns once the process has exited
AppJoin ==
    /\ app_pc = "join"
    /\ NDA_app.status # "running"
    /\ app_pc' = "done"
    /\ UNCHANGED <<server_start_timeout_sec, app_manager, NDA_app, clock, app_start, pollAt,
                   app_exc, errors_traces, body_ran, logVars, orchVars, httpVars,
                   grpcVars, filterVars, tcpVars, spyVars>>

\* the application logs a record: its handler puts it on server_log_queue
\* (api.py 37), which needs the manager
AppEmit ==
    /\ NDA_app.status = "running"
    /\ app_manager = "up"
    /\ Len(emitted) < MaxPuts
    /\ \E r \in AppRecords :
         /\ logs_queue' = Append(logs_queue, [id |-> Len(emitted) + 1, record |-> r])
         /\ emitted' = Append(emitted, [record |-> r, scope |-> scope])
    /\ UNCHANGED <<logs_storage, op, scope, exitWith, atEnter, calledSince, query, found,
                   atCall, appVars, orchVars, httpVars, grpcVars, filterVars, tcpVars, spyVars>>

\* the application process ends by itself
AppExit ==
    /\ NDA_app.status = "running"
    /\ NDA_app' = [NDA_app EXCEPT !.status = "exited"]
    /\ UNCHANGED <<server_start_timeout_sec, app_pc, app_manager, clock, app_start, pollAt,
                   app_exc, errors_traces, body_ran, logVars, orchVars, httpVars,
                   grpcVars, filterVars, tcpVars, spyVars>>

\* the monotonic clock advances; only the loop condition reads it, against
\* app_start, so ticks are modelled while the loop runs and up to the deadline
AppTick ==
    /\ app_pc \in {"loop", "poll"}
    /\ clock - app_start < server_start_timeout_sec
    /\ clock' = clock + 1
    /\ UNCHANGED <<server_start_timeout_sec, app_pc, app_manager, NDA_app, app_start, pollAt,
                   app_exc, errors_traces, body_ran, logVars, orchVars, httpVars,
                   grpcVars, filterVars, tcpVars, spyVars>>

\* a test about to enter NDA_application_manager with some timeout
InitApp ==
    /\ backends = <<>>
    /\ start_timeout_sec = 1
    /\ mode = "direct"
    /\ OrchIdle
    /\ rules = <<>>
    /\ HttpIdle
    /\ grpc_rules = <<>>
    /\ GrpcIdle
    /\ LogsIdle
    /\ SpyIdle
    /\ TcpIdle
    /\ FilterIdle
    /\ server_start_timeout_sec \in 1..MaxTimeout
    /\ app_pc = "idle"
    /\ app_manager = "none"
    /\ NDA_app = NoApp
    /\ clock = 0
    /\ app_start = 0
    /\ pollAt = 0
    /\ app_exc = "none"
    /\ errors_traces = <<>>
    /\ body_ran = FALSE

NextApp ==
    \/ AppCreate
    \/ AppStart
    \/ AppLoopTest
    \/ CollectFromQueue
    \/ HasLogRecordSearch
    \/ AppPolled
    \/ AppElse
    \/ AppYield
    \/ AppShutdown
    \/ AppTerminate
    \/ AppJoin
    \/ AppEmit
    \/ AppExit
    \/ AppTick

SpecApp == InitApp /\ [][NextApp]_vars

\* the steps of NDA_application_manager around an application that logs
\* nothing: every poll fails and the timeout ends the wait
AppManagerStep ==
    \/ AppCreate
    \/ AppStart
    \/ AppLoopTest
    \/ CollectFromQueue
    \/ HasLogRecordSearch
    \/ AppPolled
    \/ AppElse
    \/ AppShutdown
    \/ AppTerminate
    \/ AppJoin

\* a test session that uses both process factories of the layer: it enters
\* NDA_application_manager and, once that is over, calls start_backends
NextWorkers ==
    \/ AppManagerStep
    \/ AppExit
    \/ AppTick
    \/ app_pc = "done" /\ NextStart

SpecWorkers == InitStart /\ [][NextWorkers]_vars

\* a TCP backend that is serving, before a client connects
InitTCP ==
    /\ backends = <<[kind |-> "TCP", port |-> 8003]>>
    /\ start_timeout_sec = 1
    /\ mode = "standalone"
    /\ OrchIdle
    /\ rules = <<>>
    /\ HttpIdle
    /\ grpc_rules = <<>>
    /\ GrpcIdle
    /\ LogsIdle
    /\ SpyIdle
    /\ FilterIdle
    /\ AppIdle
    /\ TcpIdle

SpecTCP == InitTCP /\ [][NextTCP]_vars

(***************************************************************************)
(* ObjectSpy (objects_spier.py): the synchronous wrapper that spy() puts   *)
(* in place of each callable of the object. Calls are numbered as they are *)
(* made; the number is kept with the running method and with the Call.     *)
(***************************************************************************)
MaxCalls == 3
MaxDepth == 2
MaxMocks == 2

\* what a test puts in a mock_results list
MockValues == {None, Some("str", "foo")}

\* what a real method returns
ReturnValues == {None, Some("str", "Kis")}

\* what a real method raises
Exceptions == {Some("Exception", "wtf")}

\* the positional and keyword arguments of a call
CallArgs ==
    { [args |-> <<50>>, kwargs |-> {}],
      [args |-> <<>>, kwargs |-> {<<"g", 5>>}] }

\* the dataclass Call
SpyCall(id, spy_obj, args, kwargs, result, raised) ==
    [id |-> id, spy_obj |-> spy_obj, args |-> args, kwargs |-> kwargs,
     result |-> result, exc |-> raised]

\* ObjectSpy.append_to_calls
append_to_calls(id, spy_obj, args, kwargs, result, raised) ==
    Append(spy_calls, SpyCall(id, spy_obj, args, kwargs, result, raised))

\* the innermost real method running
Top == frames[Len(frames)]

\* variant: the result is taken from the end of the list, pop()
Wrapper_PopLast ==
    /\ made < MaxCalls
    /\ made' = made + 1
    /\ \E m \in SpiedMethods : \E c \in CallArgs :
         IF m \in DOMAIN mock_results /\ mock_results[m] # <<>>
           THEN LET list == mock_results[m]
                    return_value == list[Len(list)] IN
                  /\ mock_results' = [mock_results EXCEPT ![m] = SubSeq(list, 1, Len(list) - 1)]
                  /\ spy_return' = [spy_return EXCEPT ![m] = return_value]
                  /\ spy_exception' = [spy_exception EXCEPT ![m] = None]
                  /\ spy_calls' = append_to_calls(made + 1, m, c.args, c.kwargs,
                                                  return_value, None)
                  /\ delivered' = [id |-> made + 1, kind |-> "return", value |-> return_value]
                  /\ UNCHANGED <<frames, invoked>>
           ELSE /\ Len(frames) < MaxDepth
                /\ spy_return' = [spy_return EXCEPT ![m] = None]
                /\ spy_exception' = [spy_exception EXCEPT ![m] = None]
                /\ frames' = Append(frames, [id |-> made + 1, method |-> m,
                                             args |-> c.args, kwargs |-> c.kwargs])
                /\ invoked' = [invoked EXCEPT ![m] = @ + 1]
                /\ UNCHANGED <<mock_results, spy_calls, delivered>>
    /\ UNCHANGED <<orchVars, httpVars, grpcVars, logVars, filterVars, appVars, tcpVars>>

\* objects_spier.py 66-72, 80-81: a spied callable is called, by the test or
\* by the real method that is running. spy_return and spy_exception of its
\* spy_obj are reset; with a non-empty mock_results list the first element
\* is popped, recorded and returned, otherwise the real method is entered
Wrapper ==
    /\ made < MaxCalls
    /\ made' = made + 1
    /\ \E m \in SpiedMethods : \E c \in CallArgs :
         IF m \in DOMAIN mock_results /\ mock_results[m] # <<>>
           THEN LET return_value == Head(mock_results[m]) IN
                  /\ mock_results' = [mock_results EXCEPT ![m] = Tail(@)]
                  /\ spy_return' = [spy_return EXCEPT ![m] = return_value]
                  /\ spy_exception' = [spy_exception EXCEPT ![m] = None]
                  /\ spy_calls' = append_to_calls(made + 1, m, c.args, c.kwargs,
                                                  return_value, None)
                  /\ delivered' = [id |-> made + 1, kind |-> "return", value |-> return_value]
                  /\ UNCHANGED <<frames, invoked>>
           ELSE /\ Len(frames) < MaxDepth
                /\ spy_return' = [spy_return EXCEPT ![m] = None]
                /\ spy_exception' = [spy_exception EXCEPT ![m] = None]
                /\ frames' = Append(frames, [id |-> made + 1, method |-> m,
                                             args |-> c.args, kwargs |-> c.kwargs])
                /\ invoked' = [invoked EXCEPT ![m] = @ + 1]
                /\ UNCHANGED <<mock_results, spy_calls, delivered>>
    /\ UNCHANGED <<orchVars, httpVars, grpcVars, logVars, filterVars, appVars, tcpVars>>

\* objects_spier.py 78-81: the real method returns; the wrapper stores the
\* value in spy_return, records the call with the spy_return and the
\* spy_exception of its spy_obj, and returns the value
WrapperReturn ==
    /\ frames # <<>>
    /\ \E return_value \in ReturnValues :
         LET m == Top.method IN
           /\ spy_return' = [spy_return EXCEPT ![m] = return_value]
           /\ spy_calls' = append_to_calls(Top.id, m, Top.args, Top.kwargs,
                                           return_value, spy_exception[m])
           /\ delivered' = [id |-> Top.id, kind |-> "return", value |-> return_value]
    /\ frames' = SubSeq(frames, 1, Len(frames) - 1)
    /\ UNCHANGED <<mock_results, spy_exception, invoked, made,
                   orchVars, httpVars, grpcVars, logVars, filterVars, appVars, tcpVars>>

\* objects_spier.py 73-76: the real method raises; the wrapper stores the
\* exception in spy_exception, records the call with the spy_return and the
\* spy_exception of its spy_obj, and raises the exception again
WrapperRaise ==
    /\ frames # <<>>
    /\ \E e \in Exceptions :
         LET m == Top.method IN
           /\ spy_exception' = [spy_exception EXCEPT ![m] = e]
           /\ spy_calls' = append_to_calls(Top.id, m, Top.args, Top.kwargs,
                                           spy_return[m], e)
           /\ delivered' = [id |-> Top.id, kind |-> "raise", value |-> e]
    /\ frames' = SubSeq(frames, 1, Len(frames) - 1)
    /\ UNCHANGED <<mock_results, spy_return, invoked, made,
                   orchVars, httpVars, grpcVars, logVars, filterVars, appVars, tcpVars>>

\* objects_spier.py 46-48: ObjectSpy(mock_results), with a list of results
\* for none, one or both of the spied methods
InitSpy ==
    /\ backends = <<>>
    /\ start_timeout_sec = 1
    /\ mode = "direct"
    /\ OrchIdle
    /\ rules = <<>>
    /\ HttpIdle
    /\ grpc_rules = <<>>
    /\ GrpcIdle
    /\ LogsIdle
    /\ FilterIdle
    /\ AppIdle
    /\ TcpIdle
    /\ \E keys \in SUBSET SpiedMethods :
         mock_results \in [keys -> SeqUpTo(MockValues, MaxMocks)]
    /\ spy_calls = <<>>
    /\ spy_return = [m \in SpiedMethods |-> None]
    /\ spy_exception = [m \in SpiedMethods |-> None]
    /\ frames = <<>>
    /\ invoked = [m \in SpiedMethods |-> 0]
    /\ made = 0
    /\ delivered = NoDelivery

NextSpy == Wrapper \/ WrapperReturn \/ WrapperRaise

SpecSpy == InitSpy /\ [][NextSpy]_vars

(***************************************************************************)
(* Properties of the orchestration.                                        *)
(***************************************************************************)
Given == 1..Len(backends)

\* two of the given backends have the same port
DuplicatePorts == \E i, j \in Given : i # j /\ backends[i].port = backends[j].port

\* control has left start_backends' polling loop without a ValueError
PastLoop ==
    /\ pc \in {"sb_finally", "sb_exit", "done", "bm_body", "bm_terminate", "bm_join"}
    /\ exc # "ValueError"

\* control has left start_backends
Left == pc \in {"sb_exit", "done", "bm_body", "bm_terminate", "bm_join"}

\* backend i appended its token while the timeout had not elapsed
SignalledInTime(i) == sigAt[i] # NoTime /\ sigAt[i] - start < start_timeout_sec

\* C2, as stated: if N backends with pairwise distinct ports are given and
\* every one of them appended its readiness signal within the timeout, then
\* start_backends returns exactly N handles, does not raise, and the
\* readiness collection has length N. (Stated for N >= 1, where a backend
\* does signal.)
C2_AllInTimeReturns ==
    (Left /\ mode # "standalone" /\ ~DuplicatePorts /\ Len(backends) >= 1
       /\ \A i \in Given : SignalledInTime(i))
    => /\ exc \notin {"TimeoutError", "ValueError"}
       /\ Len(backend_processes) = Len(backends)
       /\ Len(start_signals_list) = Len(backends)

\* C2, amended: if one of start_backends' polls of the list's length (made
\* while the timeout has not elapsed) finds all N signals, the loop is left
\* without an error, and start_backends then returns exactly N handles with
\* the readiness collection of length N.
C2_PolledAllReturns ==
    /\ [][(pc = "sb_len" /\ pc' # pc /\ Len(start_signals_list) = Len(backends))
            => (pc' = "sb_finally" /\ exc' = "none")]_vars
    /\ [][(pc = "sb_finally" /\ exc = "none" /\ pc' # pc)
            => /\ pc' = "sb_exit"
               /\ exc' = "none"
               /\ Len(backend_processes') = Len(backends)
               /\ Len(start_signals_list') = Len(backends)]_vars

\* two backends were started and both handles returned
C2_Witness ==
    /\ pc = "done"
    /\ mode = "direct"
    /\ exc = "none"
    /\ Len(backends) = 2
    /\ Len(backend_processes) = 2
    /\ Len(start_signals_list) = 2

\* C3: when the scope of backends_manager has been left, however it was
\* left, no worker process spawned for the group is running, and each was
\* terminated and joined.
C3_NoOrphans ==
    (mode = "managed" /\ pc = "done")
    => \A i \in Given :
         /\ ~Running(i)
         /\ proc[i].status # "not_spawned" => (termCalls[i] >= 1 /\ joinCalls[i] >= 1)

\* C4: with two backends on the same port, start_backends raises ValueError
\* before a manager or a readiness list is created and before any worker
\* process is spawned.
C4_DuplicatePortsFailFast ==
    (mode # "standalone" /\ DuplicatePorts /\ pc \notin {"idle", "sb_check"})
    => /\ exc = "ValueError"
       /\ manager = "none"
       /\ ~listCreated
       /\ backend_processes = <<>>
       /\ \A i \in Idx : proc[i].status = "not_spawned" /\ proc[i].starts = 0

\* start_backends has raised ValueError for a group of two
C4_Witness ==
    /\ pc = "done"
    /\ exc = "ValueError"
    /\ Len(backends) = 2
    /\ manager = "none"

\* C5: if a spawned worker has not appended its signal when the polling
\* loop is left, start_backends raises TimeoutError; it raises only once
\* the timeout has elapsed; and the error carries the readiness list as it
\* is at the moment the error is built, a partial list.
C5_TimeoutCarriesSignals ==
    [][/\ (PastLoop' /\ \E i \in Given : sigAt'[i] = NoTime)
            => exc' = "TimeoutError"
       /\ exc' = "TimeoutError" => now' - start' >= start_timeout_sec'
       /\ (pc = "sb_raise" /\ pc' # pc)
            => (exc' = "TimeoutError" /\ errSignals' = start_signals_list)
       /\ (Left' /\ exc' = "TimeoutError" /\ \E i \in Given : sigAt'[i] = NoTime)
            => Len(errSignals') < Len(backends)]_vars

\* a timeout whose error carries one signal of two
C5_Witness ==
    /\ pc = "done"
    /\ exc = "TimeoutError"
    /\ Len(backends) = 2
    /\ Len(errSignals) = 1
    /\ \E i \in Given : sigAt[i] = NoTime

\* C6: on the timeout path start_backends issues no terminate and no join:
\* its steps from the raise to its exit leave every worker process as it
\* was, and no handle has been terminated or joined when it exits.
C6_TimeoutKillsNothing ==
    [][/\ (pc' # pc /\ (pc = "sb_raise" \/ (pc = "sb_finally" /\ exc = "TimeoutError")))
            => (proc' = proc /\ termCalls' = termCalls /\ joinCalls' = joinCalls)
       /\ (pc' = "sb_exit" /\ exc' = "TimeoutError")
            => \A i \in Idx : /\ termCalls'[i] = 0
                              /\ joinCalls'[i] = 0
                              /\ proc'[i].status # "terminated"]_vars

\* start_backends has raised TimeoutError and a worker that signalled is
\* still serving
C6_Witness ==
    /\ pc = "sb_exit"
    /\ exc = "TimeoutError"
    /\ \E i \in Given : Running(i) /\ CallAt(i) = "serving" /\ sigAt[i] # NoTime

\* C7: in every concrete backend start_signal is called only after the
\* server start call (site.start, server.start, start_serving) has
\* completed, and never when that call failed.
C7_SignalAfterStart ==
    \A i \in Given :
      LET prog == Program(backends[i].kind)
          startPos == PosOf(prog, StartCall(backends[i].kind))
      IN /\ signalCalls[i] > 0 => proc[i].at > startPos
         /\ (proc[i].status = "failed" /\ proc[i].at <= startPos) => signalCalls[i] = 0

\* one worker has signalled, another failed in its start call and did not
C7_Witness ==
    \E i, j \in Given :
      /\ signalCalls[i] = 1
      /\ CallAt(i) = "serving"
      /\ proc[j].status = "failed"
      /\ CallAt(j) = StartCall(backends[j].kind)
      /\ signalCalls[j] = 0

\* C8: a call of start_signal appends exactly one token, '<repr of the
\* backend> start message', to the readiness collection passed to run();
\* with no collection (None) it changes nothing and does not fail.
C8_StartSignalAppendsOne ==
    [][\A i \in Given :
         signalCalls'[i] # signalCalls[i]
         => /\ signalCalls'[i] = signalCalls[i] + 1
            /\ IF proc[i].list = "None"
                 THEN /\ start_signals_list' = start_signals_list
                      /\ proc'[i].status = "running"
                 ELSE manager = "up"
                      => start_signals_list' =
                           Append(start_signals_list,
                                  <<<<backends[i].kind, "Backend object", i>>,
                                    "start message">>)]_vars

\* a worker run by start_backends has appended its token
C8_Witness ==
    \E i \in Given :
      /\ signalCalls[i] = 1
      /\ proc[i].list = "shared"
      /\ start_signals_list = <<Token(i)>>

(***************************************************************************)
(* Properties of the HTTP backend.                                         *)
(***************************************************************************)
\* a request has been handled
Handled == request # NoRequest

\* the rules matching the last request
Matching == {n \in 1..Len(rules) : matches(rules[n], request)}

\* C1: the response is produced by the result of the first rule, in
\* declaration order, whose matches(request) is true; no result of a later
\* rule is invoked, also when that later rule matches too.
C1_FirstMatchWins ==
    (Handled /\ Matching # {})
    => LET first == CHOOSE n \in Matching : \A m \in Matching : n <= m IN
         /\ processed = <<first>>
         /\ response.body = rules[first].result.data
         /\ response.status = rules[first].result.status
         /\ \A n \in 1..Len(consulted) : consulted[n] <= first

\* both rules of an overlapping two-rule set match, with different results,
\* and the first has answered
C1_Witness ==
    /\ Handled
    /\ Len(rules) = 2
    /\ Matching = {1, 2}
    /\ rules[1].result # rules[2].result
    /\ rules[1].path.tag = "str"
    /\ processed = <<1>>

\* C11: when no rule matches the request, the empty rule set included, the
\* response is a 404 whose JSON body tells the request's method, path, query
\* parameters and headers; no rule result is invoked and a response is
\* returned (no exception).
C11_NoMatchIs404 ==
    (Handled /\ Matching = {})
    => /\ response.status = 404
       /\ response.json.ERROR = "No matching rule found for incoming request"
       /\ response.json.incoming_request_info.method = request.method
       /\ response.json.incoming_request_info.path = request.path
       /\ LET q == response.json.incoming_request_info.query_params IN
            /\ Keys(q) = {request.query[n][1] : n \in 1..Len(request.query)}
            /\ \A kv \in q : \E n \in 1..Len(request.query) : request.query[n] = kv
       /\ LET h == response.json.incoming_request_info.headers IN
            /\ Keys(h) = {request.headers[n][1] : n \in 1..Len(request.headers)}
            /\ \A kv \in h : \E n \in 1..Len(request.headers) : request.headers[n] = kv
       /\ processed = <<>>
       /\ consulted = [n \in 1..Len(rules) |-> n]

\* two rules were consulted for a request with query parameters and headers,
\* neither matched, and the 404 has been returned
C11_Witness ==
    /\ Handled
    /\ Len(rules) = 2
    /\ Matching = {}
    /\ request.query # <<>>
    /\ request.headers # <<>>
    /\ response.status = 404
    /\ processed = <<>>

\* the rule consulted at the n-th turn of handle's loop was found to match
FoundMatching(n) == processed = <<consulted[n]>>

\* C12: a rule matches the request iff its method, path, query and header
\* matches all hold; each of the four holds for every request when the
\* rule's attribute is None, so a rule with the four attributes unset (the
\* default HTTPRule()) matches every request.
C12_MatchesIsConjunction ==
    Handled
    => \A n \in 1..Len(consulted) :
         LET rule == rules[consulted[n]] IN
           /\ FoundMatching(n) <=> /\ method_mathes(rule, request)
                                   /\ path_matches(rule, request)
                                   /\ query_params_match(rule, request)
                                   /\ headers_match(rule, request)
           /\ rule.method = None => method_mathes(rule, request)
           /\ rule.path = None => path_matches(rule, request)
           /\ rule.query_params = None => query_params_match(rule, request)
           /\ rule.headers = None => headers_match(rule, request)
           /\ (rule.method = None /\ rule.path = None /\ rule.query_params = None
                 /\ rule.headers = None) => FoundMatching(n)

\* a rule with a method and a path was consulted and did not match, its
\* method matching and its path not; the default rule after it matched a
\* request that has query parameters and headers
C12_Witness ==
    /\ Handled
    /\ consulted = <<1, 2>>
    /\ rules[1].method # None
    /\ rules[1].path # None
    /\ method_mathes(rules[1], request)
    /\ ~path_matches(rules[1], request)
    /\ rules[2] = HTTPRule
    /\ request.query # <<>>
    /\ request.headers # <<>>
    /\ processed = <<2>>

\* what the claim says of a mapping validator against the actual mapping
Satisfies(actual, validator, tolerant) ==
    /\ \A key \in Keys(validator) :
         \E kv \in actual : kv[1] = key /\ <<key, kv[2]>> \in validator
    /\ tolerant \/ Keys(actual) = Keys(validator)

\* the rule constrains nothing but its query parameters
QueryOnly(rule) ==
    /\ rule.method = None /\ rule.path = None /\ rule.headers = None
    /\ rule.query_params.tag = "dict"

\* the rule constrains nothing but its headers
HeadersOnly(rule) ==
    /\ rule.method = None /\ rule.path = None /\ rule.query_params = None
    /\ rule.headers.tag = "dict"

\* C13: with the tolerance flag set, a query (header) validator matches iff
\* every key of the validator is satisfied by the actual mapping, extra
\* actual keys being ignored; with the flag unset the actual mapping must
\* also have exactly the validator's key set, so an empty validator fails
\* against a non-empty actual mapping.
C13_MappingMatch ==
    Handled
    => \A n \in 1..Len(consulted) :
         LET rule == rules[consulted[n]] IN
           /\ QueryOnly(rule)
                => (FoundMatching(n)
                     <=> Satisfies(Dict(request.query), rule.query_params.val,
                                   rule.ignore_extra_query_params))
           /\ HeadersOnly(rule)
                => (FoundMatching(n)
                     <=> Satisfies(DictCI(request.headers), rule.headers.val,
                                   rule.ignore_extra_headers))
           /\ (QueryOnly(rule) /\ rule.query_params.val = {}
                 /\ ~rule.ignore_extra_query_params /\ request.query # <<>>)
                => ~FoundMatching(n)

\* the validator {q: vk} against the query q=vk&num=10: the rule without
\* the flag did not match, the rule with the flag did
C13_Witness ==
    /\ Handled
    /\ request.query = << <<"q", "vk">>, <<"num", "10">> >>
    /\ consulted = <<1, 2>>
    /\ QueryOnly(rules[1]) /\ QueryOnly(rules[2])
    /\ rules[1].query_params.val = {<<"q", "vk">>}
    /\ rules[2].query_params.val = {<<"q", "vk">>}
    /\ ~rules[1].ignore_extra_query_params
    /\ rules[2].ignore_extra_query_params
    /\ processed = <<2>>

\* a mapping with its keys in lower case
LowerKeys(dict) == {<<ToLower(kv[1]), kv[2]>> : kv \in dict}

\* C14: headers_match treats header keys case-insensitively: a rule whose
\* headers validator names a literal key matches a request that carries the
\* same header, with the value asked for, in a different letter case.
C14_HeaderKeysIgnoreCase ==
    Handled
    => \A n \in 1..Len(consulted) :
         LET rule == rules[consulted[n]] IN
           (/\ HeadersOnly(rule)
            /\ Satisfies(LowerKeys(DictCI(request.headers)),
                         LowerKeys(rule.headers.val), rule.ignore_extra_headers))
           => FoundMatching(n)

(***************************************************************************)
(* Properties of the method matching of both rule kinds.                   *)
(***************************************************************************)
\* a call has been handled
GrpcHandled == grpc_call # NoCall

\* _handler took that step for rule n
Took(step, n) == \E t \in 1..Len(trail) : trail[t] = <<step, n>>

\* two strings are equal ignoring letter case
EqualIgnoringCase(a, b) ==
    /\ Len(a) = Len(b)
    /\ \A n \in 1..Len(a) :
         \/ a[n] = b[n]
         \/ \E l \in 1..Len(Upper) : {a[n], b[n]} = {Upper[l], Lower[l]}

\* the rule constrains nothing but the method, if that
MethodOnly(rule) ==
    rule.path = None /\ rule.query_params = None /\ rule.headers = None

\* C15: method matching is case-insensitive equality in both rule kinds: a
\* rule without a method matches every incoming method, and a rule with one
\* matches iff the incoming method equals it ignoring letter case, so the
\* empty string as rule method matches no non-empty method.
C15_MethodIgnoresCase ==
    /\ Handled
         => \A n \in 1..Len(consulted) :
              LET rule == rules[consulted[n]] IN
                MethodOnly(rule)
                => (FoundMatching(n)
                     <=> \/ rule.method = None
                         \/ /\ rule.method # None
                            /\ EqualIgnoringCase(request.method, rule.method.val))
    /\ GrpcHandled
         => \A n \in 1..Len(grpc_rules) :
              LET rule == grpc_rules[n] IN
                Took("method_matches", n)
                => /\ Took("FromString", n)
                        <=> \/ rule.grpc_method = None
                            \/ /\ rule.grpc_method # None
                               /\ EqualIgnoringCase(grpc_call.method,
                                                    rule.grpc_method.val)
                   /\ (rule.grpc_method # None /\ rule.grpc_method.val = <<>>
                         /\ grpc_call.method # <<>>) => ~Took("FromString", n)

\* the HTTP rule for method post matched a POST request, and the gRPC rule
\* for method Lookup went on to decode a call of lookup
C15_Witness ==
    /\ Handled /\ GrpcHandled
    /\ Len(rules) = 1 /\ rules[1].method = Some("str", post)
    /\ request.method = POST
    /\ processed = <<1>>
    /\ Len(grpc_rules) = 1 /\ grpc_rules[1].grpc_method = Some("str", Lookup)
    /\ grpc_call.method = lookup
    /\ Took("FromString", 1)

(***************************************************************************)
(* Properties of the gRPC backend.                                         *)
(***************************************************************************)
\* the request of the last call decodes with the message type of rule n
Decodes(n) == ~DecodeError(grpc_rules[n].request_msg_cls, grpc_call.request)

\* the message rule n decodes from the request of the last call
Decoded(n) == FromString(grpc_rules[n].request_msg_cls, grpc_call.request)

\* the rules that fully match the last call: the method matches, and the
\* message decoded with the rule's type satisfies the rule's field matcher
FullMatches ==
    {n \in 1..Len(grpc_rules) :
       /\ method_matches(grpc_rules[n], grpc_call.method)
       /\ Decodes(n)
       /\ message_args_match(grpc_rules[n], Decoded(n))}

\* the position of a step in the trail
At(step, n) == CHOOSE t \in 1..Len(trail) : trail[t] = <<step, n>>

\* C16: the rules are evaluated in declaration order; on the first rule for
\* which both method_matches and message_args_match hold, the handler returns
\* that rule's output_handler applied to the message decoded with that
\* rule's message type; a rule's message type decodes the request only after
\* that rule's method match succeeded, and no later rule is decoded or
\* invoked after the first full match.
C16_FirstFullMatchAnswers ==
    GrpcHandled
    => /\ \A t, u \in 1..Len(trail) : t < u => trail[t][2] <= trail[u][2] \/ trail[u][2] = 0
       /\ \A n \in 1..Len(grpc_rules) :
            Took("FromString", n)
            => /\ Took("method_matches", n)
               /\ At("method_matches", n) < At("FromString", n)
               /\ method_matches(grpc_rules[n], grpc_call.method)
       /\ FullMatches # {}
            => LET first == CHOOSE n \in FullMatches : \A m \in FullMatches : n <= m IN
                 /\ outcome.kind = "return"
                 /\ outcome.bytes.handler = grpc_rules[first].output_handler
                 /\ outcome.bytes.message = Decoded(first)
                 /\ Took("output_handler", first)
                 /\ \A n \in 1..Len(grpc_rules) :
                      n > first => \A t \in 1..Len(trail) : trail[t][2] # n

\* C17: if no rule fully matches the call, the empty rule set included, the
\* call is aborted with status INVALID_ARGUMENT and a diagnostic message, no
\* output handler is invoked and no response bytes are returned.
C17_NoMatchAborts ==
    (GrpcHandled /\ FullMatches = {})
    => /\ outcome.kind = "abort"
       /\ outcome.code = "INVALID_ARGUMENT"
       /\ outcome.details # ""
       /\ outcome.bytes = NoBytes
       /\ \A n \in 1..Len(grpc_rules) : ~Took("output_handler", n)

\* C18: message_args_match is true when the rule has no field matcher, and
\* otherwise true iff the field-name-to-value mapping of the decoded message
\* satisfies the rule's mapping validator under the rule's own
\* ignore_extra_message_args: exactly the validator's keys when the flag is
\* false, at least them when it is true, as for HTTP queries and headers.
C18_MessageArgsMatch ==
    GrpcHandled
    => \A n \in 1..Len(grpc_rules) :
         LET rule == grpc_rules[n] IN
           Took("message_args_match", n)
           => (Took("output_handler", n)
                <=> \/ rule.message_args = None
                    \/ /\ rule.message_args # None
                       /\ Satisfies(Decoded(n).fields, rule.message_args.val,
                                    rule.ignore_extra_message_args))

\* a message with the fields name and id was decoded twice: the rule asking
\* for exactly {id: 7} did not match it, the rule asking for {id: 7} with
\* extra fields ignored did
C18_Witness ==
    /\ GrpcHandled
    /\ Len(grpc_rules) = 2
    /\ grpc_rules[1].message_args = Some("dict", {<<"id", "7">>})
    /\ grpc_rules[2].message_args = Some("dict", {<<"id", "7">>})
    /\ ~grpc_rules[1].ignore_extra_message_args
    /\ grpc_rules[2].ignore_extra_message_args
    /\ Decoded(1).fields = {<<"name", "42">>, <<"id", "7">>}
    /\ Took("message_args_match", 1)
    /\ ~Took("output_handler", 1)
    /\ Took("output_handler", 2)

(***************************************************************************)
(* Properties of LogsStorage.                                              *)
(***************************************************************************)
\* the scope has been entered (__enter__ has returned)
Entered == scope \in {"in", "exiting", "exited"}

\* ids of the records put before __enter__ was called
PutBefore == {n \in 1..Len(emitted) : emitted[n].scope = "out"}

\* ids of the records put in the body of the with statement
PutInside == {n \in 1..Len(emitted) : emitted[n].scope = "in"}

\* C9, as stated: once a capture scope has been entered, the visible
\* records (logs_storage) are only records emitted during the scope: nothing
\* emitted before the scope began is visible.
C9_NothingFromBefore == Entered => Ids(logs_storage) \cap PutBefore = {}

\* C9, amended: entering a capture scope discards every record that is
\* queued at that moment, none of them is visible afterwards; a record
\* emitted before the scope is visible after entry only if it was already
\* in logs_storage at entry (entry does not clear the buffer), so with the
\* buffer empty at entry nothing emitted before the scope is visible.
C9_QueuedBeforeDiscarded ==
    Entered
    => /\ Ids(logs_storage) \cap Ids(atEnter.queue) = {}
       /\ Ids(logs_storage) \cap PutBefore \subseteq Ids(atEnter.storage)
       /\ atEnter.storage = <<>> => Ids(logs_storage) \cap PutBefore = {}

\* two stale records were queued at entry, the scope is over, and the buffer
\* holds only the record put inside
C9_Witness ==
    /\ scope = "exited"
    /\ Len(atEnter.queue) = 2
    /\ atEnter.storage = <<>>
    /\ Len(logs_storage) = 1
    /\ Ids(logs_storage) = PutInside

\* C10: when the scope has exited, by return or by an exception of its
\* body, every record put inside the scope is in logs_storage, also when
\* nothing was collected inside the scope and while the producer kept
\* writing during the exit.  (A record the test itself discards with a clear
\* call after entry is not counted as lost.)
C10_ExitCollectsAll ==
    (scope = "exited"
       /\ calledSince \cap {"clear_logs_queue", "clear_logs_storage"} = {})
    => PutInside \subseteq Ids(logs_storage)

\* the body raised, nothing was collected inside the scope, two records
\* were put inside it and one more while __exit__ was collecting
C10_Witness ==
    /\ scope = "exited"
    /\ exitWith = "raise"
    /\ calledSince = {}
    /\ Cardinality(PutInside) = 2
    /\ PutInside \subseteq Ids(logs_storage)
    /\ \E n \in 1..Len(emitted) : emitted[n].scope = "exiting"

\* the buffered or queued records that have the level of the query and a
\* message its pattern matches
MatchingIn(records, q) ==
    {n \in 1..Len(records) :
       /\ records[n].record.levelname = q.level
       /\ match(q.pattern, records[n].record.message)}

\* has_log_record returns
HasLogRecordReturns == op = "filter_logs" /\ op' = "idle"

\* C19: has_log_record(pattern, level, collect) returns true iff some record
\* in the buffer, after the queue was first drained into the buffer when
\* collect is set, has that level and a message matching the pattern: false
\* while no matching record is buffered, false for a matching record that is
\* only in the queue when collect is not set, true once that record has been
\* collected.
C19_HasLogRecord ==
    [][HasLogRecordReturns
       => /\ found'.query = query
          /\ found'.value = IF MatchingIn(logs_storage', query) # {}
                              THEN "True" ELSE "False"
          /\ query.collect
               => /\ Ids(atCall.queue) \subseteq Ids(logs_storage')
                  /\ Len(logs_storage') >= Len(atCall.storage) + Len(atCall.queue)
          /\ ~query.collect
               => /\ logs_queue' = logs_queue /\ logs_storage' = logs_storage
                  /\ (MatchingIn(logs_storage, query) = {}
                        /\ MatchingIn(logs_queue, query) # {})
                       => found'.value = "False"]_vars

\* a call with collect set has drained a queue that held the only matching
\* record and returned true
C19_Witness ==
    /\ op = "idle"
    /\ found.value = "True"
    /\ found.query.collect
    /\ found.query.level = "INFO"
    /\ found.query.pattern = Pattern(TRUE, <<"8080">>)
    /\ logs_queue = <<>>
    /\ Cardinality(MatchingIn(logs_storage, found.query)) = 1
    /\ Len(logs_storage) >= 2

\* the records put after collect_from_queue was called, as queue items
PutSinceCall ==
    [n \in 1..(Len(emitted) - atCall.puts) |->
       [id |-> atCall.puts + n, record |-> emitted[atCall.puts + n].record]]

\* C20: collect_from_queue moves every record in the queue into the buffer:
\* when it returns without a put since it was called, the queue is empty and
\* logs_storage is its previous contents followed by the records that were
\* queued, oldest first.  (Records put meanwhile follow them, in put order.)
C20_CollectMovesQueue ==
    [][(op = "collect_from_queue" /\ op' # "collect_from_queue")
       => /\ logs_queue' = <<>>
          /\ Len(emitted) = atCall.puts
               => logs_storage' = atCall.storage \o atCall.queue
          /\ logs_storage' = atCall.storage \o atCall.queue \o PutSinceCall]_vars

\* collect_from_queue was called on a buffer of one record and a queue of
\* two, nothing was put since, and its loop has moved both
C20_Witness ==
    /\ op = "collect_from_queue"
    /\ Len(atCall.storage) = 1
    /\ Len(atCall.queue) = 2
    /\ Len(emitted) = atCall.puts
    /\ logs_queue = <<>>
    /\ logs_storage = atCall.storage \o atCall.queue

\* a step of clear_logs_storage: the storage is idle before and after, nothing
\* is put and no scope is entered or left
ClearStorageStep ==
    /\ op = "idle" /\ op' = "idle"
    /\ emitted' = emitted
    /\ scope' = scope

\* C21: clear_logs_storage empties the buffer and leaves the queue as it is;
\* while clear_logs_queue runs the buffer never changes and each of its steps
\* only removes the oldest queued record, and when it returns the queue is
\* empty.
C21_ClearFrames ==
    [][/\ ClearStorageStep
            => logs_storage' = <<>> /\ logs_queue' = logs_queue
       /\ op = "clear_logs_queue"
            => /\ logs_storage' = logs_storage
               /\ emitted' = emitted
                    => \/ logs_queue' = logs_queue
                       \/ ~Empty /\ logs_queue' = Tail(logs_queue)
               /\ op' # "clear_logs_queue" => logs_queue' = <<>>]_vars

\* clear_logs_queue has discarded the second and third record put while the
\* buffer keeps the first, collected before them
C21_Witness ==
    /\ op = "clear_logs_queue"
    /\ Len(emitted) = 3
    /\ logs_queue = <<>>
    /\ Ids(logs_storage) = {1}

\* clear_logs_storage has emptied a buffer that held the first record while
\* the second is still queued
C21_StorageWitness ==
    /\ op = "idle"
    /\ Len(emitted) = 2
    /\ logs_storage = <<>>
    /\ Ids(logs_queue) = {2}

\* a buffered record passes the filter: its level is the one asked for when a
\* level is given, and its logger name the one asked for when a name is given
Passes(log, args) ==
    /\ args.level.tag # "None" => log.record.levelname = args.level.val
    /\ args.name.tag # "None" => log.record.name = args.name.val

\* C22: filter_logs(level, name) returns exactly the buffered records that pass
\* the given level and the given name, in buffer order, the whole buffer when
\* both are omitted, and changes neither the buffer nor the queue.
C22_FilterLogs ==
    [][/\ filtered' = SelectSeq(logs_storage, LAMBDA log : Passes(log, filterArgs'))
       /\ (filterArgs'.level = None /\ filterArgs'.name = None)
            => filtered' = logs_storage
       /\ logs_storage' = logs_storage
       /\ logs_queue' = logs_queue]_vars

\* filter_logs("ERROR", name="app") has returned the first and third of three
\* buffered records, an ERROR record of another logger between them
C22_Witness ==
    /\ filterArgs = [level |-> Some("str", "ERROR"), name |-> Some("str", "app")]
    /\ Len(logs_storage) = 3
    /\ logs_storage[2].record = [levelname |-> "ERROR", name |-> "access", message |-> <<"boom">>]
    /\ filtered = <<logs_storage[1], logs_storage[3]>>

\* C23: whatever the workers do, a call of start_backends that has passed its
\* port check eventually returns the handles of all its backends or raises
\* TimeoutError.
C23_StartBackendsEnds ==
    (pc = "sb_check" /\ ~DuplicatePorts)
    ~> /\ pc = "done"
       /\ \/ exc = "none" /\ Len(backend_processes) = Len(backends)
          \/ exc = "TimeoutError"

\* start_backends has raised TimeoutError while both its workers are still
\* running and neither has signalled
C23_Witness ==
    /\ pc = "done"
    /\ exc = "TimeoutError"
    /\ Len(backends) = 2
    /\ \A i \in 1..2 : Running(i) /\ signalCalls[i] = 0

\* C24: start_backends creates one worker process per backend, in the order of
\* the backends, and starts each once: no process is ever started twice,
\* whatever became of it, and once the polling loop is left, with all signals
\* or on the timeout, every given backend has one handle and one start.
C24_OneWorkerEach ==
    /\ \A i \in Idx : proc[i].starts <= 1
    /\ \A n \in 1..Len(backend_processes) :
         backend_processes[n] = n /\ proc[n].starts = 1
    /\ \A i \in Idx : i > Len(backend_processes) => proc[i].starts = 0
    /\ (PastLoop /\ mode # "standalone")
         => /\ Len(backend_processes) = Len(backends)
            /\ \A i \in Given : proc[i].starts = 1

\* start_backends has raised TimeoutError for two backends, the first of
\* which failed before signalling and the second of which never signalled
C24_Witness ==
    /\ pc = "done"
    /\ exc = "TimeoutError"
    /\ Len(backends) = 2
    /\ proc[1].status = "failed"
    /\ Running(2) /\ signalCalls[2] = 0
    /\ proc[1].starts = 1 /\ proc[2].starts = 1

\* C25: the readiness collection only grows, by appends at its end, it never
\* holds more entries than there are launched workers, and no backend's token
\* is in it twice.
C25_SignalsAppendOnly ==
    [][/\ Len(start_signals_list') >= Len(start_signals_list)
       /\ SubSeq(start_signals_list', 1, Len(start_signals_list)) = start_signals_list
       /\ Len(start_signals_list') <= Len(backend_processes')
       /\ \A i \in Given :
            Cardinality({n \in 1..Len(start_signals_list') :
                           start_signals_list'[n] = Token(i)}) <= 1]_vars

\* the second of two launched workers has signalled before the first
C25_Witness ==
    /\ Len(backend_processes) = 2
    /\ start_signals_list = <<Token(2), Token(1)>>

\* the words occur in the message, one after the other
Contains(message, words) ==
    \E from \in 1..(Len(message) + 1) :
      /\ from + Len(words) - 1 <= Len(message)
      /\ \A n \in 1..Len(words) : message[from + n - 1] = words[n]

\* the buffer holds an INFO record whose message contains "Start serving on"
ServingCollected ==
    \E n \in 1..Len(logs_storage) :
      /\ logs_storage[n].record.levelname = "INFO"
      /\ Contains(logs_storage[n].record.message, <<"Start", "serving", "on">>)

\* the buffered ERROR records
ErrorsCollected ==
    {n \in 1..Len(logs_storage) : logs_storage[n].record.levelname = "ERROR"}

\* C26: NDA_application_manager gives control to the caller's body only when
\* the buffer holds a collected INFO record containing "Start serving on",
\* found by a has_info_log_record call made while the timeout had not elapsed.
\* Otherwise it raises TimeoutError, once the timeout has elapsed and with no
\* such record collected; the error text contains the message of every ERROR
\* record collected so far, or is "<empty>" when there is none, and the body
\* never runs.
C26_YieldOnlyAfterServing ==
    /\ (app_pc = "yield" \/ body_ran)
         => /\ ServingCollected
            /\ pollAt - app_start < server_start_timeout_sec
            /\ app_exc # "TimeoutError"
    /\ app_pc \in {"shutdown", "terminate", "join", "done"}
         => (body_ran \/ app_exc = "TimeoutError")
    /\ app_exc = "TimeoutError"
         => /\ ~body_ran
            /\ ~ServingCollected
            /\ clock - app_start >= server_start_timeout_sec
            /\ \A n \in ErrorsCollected :
                 Contains(errors_traces, logs_storage[n].record.message)
            /\ ErrorsCollected = {} => errors_traces = <<"<empty>">>
            /\ ErrorsCollected # {} => ~Contains(errors_traces, <<"<empty>">>)

\* the manager has raised TimeoutError after collecting two ERROR records,
\* one of them with the awaited message, and no INFO record
C26_Witness ==
    /\ app_pc = "done"
    /\ app_exc = "TimeoutError"
    /\ Cardinality(ErrorsCollected) = 2
    /\ \E n \in ErrorsCollected :
         Contains(logs_storage[n].record.message, <<"Start", "serving", "on">>)
    /\ ~body_ran

\* the body has run after the awaited INFO record was collected behind an
\* ERROR record
C26_YieldWitness ==
    /\ body_ran
    /\ Len(logs_storage) >= 2
    /\ logs_storage[1].record.levelname = "ERROR"
    /\ ServingCollected

\* C27: every process the layer creates, the worker of each backend in
\* start_backends and the application process of NDA_application_manager, is
\* a daemon process from the moment it exists and stays one.
C27_WorkersAreDaemons ==
    /\ \A i \in Idx :
         (mode # "standalone" /\ proc[i].status # "not_spawned") => proc[i].daemon
    /\ NDA_app.status # "none" => NDA_app.daemon

\* the application process was terminated by its manager, and of two backend
\* workers started afterwards one runs and one has failed: all three daemons
C27_Witness ==
    /\ NDA_app.status = "terminated" /\ NDA_app.daemon
    /\ Running(1) /\ proc[1].daemon
    /\ proc[2].status = "failed" /\ proc[2].daemon

MatchAll(rule) ==
    /\ rule.method = None
    /\ rule.path = None
    /\ rule.query_params = None
    /\ rule.headers = None

\* the rule constrains the path alone, to a string
PathOnly(rule) ==
    /\ rule.method = None
    /\ rule.path.tag = "str"
    /\ rule.query_params = None
    /\ rule.headers = None

\* C29: with a path rule followed by a match-all rule, a request on the
\* rule's path gets the path rule's body and status and every other request
\* the match-all rule's, never the 404 answer; a backend left with the class
\* default rules answers every request "HTTP BACKEND RESULT" with status 200.
C29_PathRuleThenDefault ==
    /\ (Handled /\ Len(rules) = 2 /\ PathOnly(rules[1]) /\ MatchAll(rules[2]))
         => /\ request.path = rules[1].path.val
                 => response = Response(rules[1].result.data, rules[1].result.status)
            /\ request.path # rules[1].path.val
                 => response = Response(rules[2].result.data, rules[2].result.status)
            /\ response.status # 404
    /\ (Handled /\ rules = <<HTTPRule>>)
         => response = Response("HTTP BACKEND RESULT", 200)

\* a request on another path than the path rule's was answered by the
\* match-all rule behind it
C29_Witness ==
    /\ Len(rules) = 2
    /\ PathOnly(rules[1]) /\ MatchAll(rules[2])
    /\ rules[1].result # rules[2].result
    /\ Handled
    /\ request.path # rules[1].path.val
    /\ response = Response(rules[2].result.data, rules[2].result.status)

\* a backend with the class default rules has answered a POST request with
\* query parameters and headers
C29_DefaultWitness ==
    /\ rules = <<HTTPRule>>
    /\ request.method = POST
    /\ request.query # <<>>
    /\ request.headers # <<>>
    /\ response = Response("HTTP BACKEND RESULT", 200)

\* the calls of handle_connection, in the order of its statements
HandlerCalls == <<"read", "write", "drain", "close">>

\* C30: on a connection handle_connection calls read, write, drain and close
\* in this order, each at most once and all four when it returns; the read
\* yields at most 1024 bytes, the first ones of what the client sends; what
\* is written is exactly what was read, and bytes beyond it are never
\* written.
C30_OneShotEcho ==
    /\ Len(calls) <= 4
    /\ calls = SubSeq(HandlerCalls, 1, Len(calls))
    /\ conn_pc = "closed" => calls = HandlerCalls
    /\ Size(read_data) <= ReadSize
    /\ Len(calls) >= 1
         => /\ Take(Stream(segments_sent), Size(read_data)) = read_data
            /\ conn_pc # "failed" \/ Len(calls) > 1
                 => Concat(read_data, buffer) = Stream(segments_sent)
    /\ written = IF Len(calls) >= 2 THEN read_data ELSE <<>>

\* the client sent 1025 bytes and then one more; the handler has echoed the
\* first 1024 and closed
C30_Witness ==
    /\ conn_pc = "closed"
    /\ segments_sent = <<[byte |-> "b", n |-> ReadSize + 1], [byte |-> "a", n |-> 1]>>
    /\ written = <<[byte |-> "b", n |-> ReadSize]>>
    /\ buffer = <<[byte |-> "b", n |-> 1], [byte |-> "a", n |-> 1]>>

\* C31: run(start_signals) records the list on the backend before any call of
\* start_server is made, then goes through start_server once, call by call
\* and never back; run has not returned while start_server is in progress,
\* and an exception raised in it ends run there: nothing of it runs after.
C31_RunRecordsThenStarts ==
    [][\A i \in Given :
         /\ (proc'[i].status # "not_spawned" /\ proc'[i].at >= 2)
              => proc'[i].list = "shared"
         /\ proc'[i].at # proc[i].at
              => /\ Running(i)
                 /\ proc'[i].at = proc[i].at + 1
                 /\ proc'[i].at <= Len(Program(backends[i].kind))
         /\ proc[i].status = "failed" => proc'[i] = proc[i]
         /\ (proc[i].status = "running" /\ proc'[i].status = "failed")
              => proc'[i].at = proc[i].at]_vars

\* one worker's start_server raised in its first call, after the list was
\* recorded, and another worker's start_server is serving
C31_Witness ==
    \E i, j \in Given :
      /\ proc[i].status = "failed" /\ proc[i].at = 2 /\ proc[i].list = "shared"
      /\ Running(j) /\ CallAt(j) = "serving" /\ proc[j].list = "shared"

\* C32: the manager created by start_backends is up from its creation to the
\* finally clause, is shut down by the one step that leaves the finally
\* clause and by no other, and is down when control has left start_backends,
\* after a successful start and after a timeout; a call that created no
\* manager shuts none down.
C32_ManagerShutDownOnce ==
    [][/\ manager' # manager
            => \/ manager = "none" /\ manager' = "up" /\ pc = "sb_manager"
               \/ manager = "up" /\ manager' = "down" /\ pc = "sb_finally"
       /\ (pc = "sb_finally" /\ pc' # pc)
            => manager = "up" /\ manager' = "down" /\ pc' = "sb_exit"
       /\ pc' \in {"sb_list", "sb_spawn", "sb_loop", "sb_len", "sb_raise", "sb_finally"}
            => manager' = "up"
       /\ (pc' \in {"sb_exit", "done"} /\ exc' \in {"none", "TimeoutError"})
            => manager' = "down"
       /\ (pc' \in {"sb_exit", "done"} /\ exc' = "ValueError")
            => manager' = "none"]_vars

\* start_backends has raised TimeoutError and its manager is shut down
C32_Witness ==
    /\ pc = "done"
    /\ exc = "TimeoutError"
    /\ manager = "down"
    /\ Len(backend_processes) = 2

\* C33: whenever a worker spawned by start_backends executes start_signal with
\* the shared list, the manager of the list is up, so the append succeeds.
C33_AppendNeverFails ==
    [][\A i \in Given :
         (signalCalls'[i] # signalCalls[i] /\ proc[i].list = "shared")
         => /\ manager = "up"
            /\ proc'[i].status = "running"]_vars

\* C34: start_backends leaves its loop without an error only in a poll that
\* finds as many signals as spawned processes, and when it has returned the
\* handles every given backend has appended its token.
C34_NoFalseSuccess ==
    [][/\ (pc # "sb_finally" /\ pc' = "sb_finally" /\ exc' = "none")
            => /\ pc = "sb_len"
               /\ Len(start_signals_list) = Len(backend_processes)
       /\ (pc' \in {"sb_exit", "done", "bm_body"} /\ exc' = "none" /\ mode # "standalone")
            => /\ Len(backend_processes') = Len(backends)
               /\ \A i \in Given :
                    /\ signalCalls'[i] = 1
                    /\ \E n \in 1..Len(start_signals_list') :
                         start_signals_list'[n] =
                           <<<<backends[i].kind, "Backend object", i>>, "start message">>]_vars

\* start_backends has returned two handles after both workers signalled,
\* the second first
C34_Witness ==
    /\ pc = "done"
    /\ exc = "none"
    /\ Len(backend_processes) = 2
    /\ sigAt[1] # NoTime /\ sigAt[2] # NoTime
    /\ start_signals_list[1][1][3] = 2

\* C35: as long as nothing is cleared, the buffer followed by what is left in
\* the queue is the sequence of all records put, in the order of the puts.
C35_RecordsConserved ==
    logs_storage \o logs_queue
      = [n \in 1..Len(emitted) |-> [id |-> n, record |-> emitted[n].record]]

\* a put lands while collect_from_queue is running inside has_log_record:
\* two records are in the buffer already, the third waits in the queue
C35_Witness ==
    /\ op = "collect_from_queue"
    /\ query # NoQuery
    /\ Len(emitted) = 3
    /\ atCall.puts < 3
    /\ atCall.storage # <<>>
    /\ Len(logs_storage) = 2
    /\ Len(logs_queue) = 1

\* C36: a call of clear_logs_queue or collect_from_queue that has started
\* returns, also next to a worker that keeps putting records.
C36_LoopsTerminate ==
    (op \in {"clear_logs_queue", "collect_from_queue"}) ~> (op = "idle")

\* the worker handles backends_manager holds
Handles == {backends_processes[n] : n \in 1..Len(backends_processes)}

\* C37: backends_manager calls join on a handle only after terminate has been
\* called on every handle, and when it is done each handle has received one
\* terminate and one join.
C37_TerminateAllThenJoin ==
    [][/\ \A i \in Idx :
            /\ joinCalls'[i] # joinCalls[i]
                 => /\ i \in Handles
                    /\ joinCalls'[i] = 1
                    /\ \A j \in Handles : termCalls[j] = 1
            /\ termCalls'[i] # termCalls[i]
                 => /\ i \in Handles
                    /\ termCalls'[i] = 1
                    /\ \A j \in Handles : joinCalls[j] = 0
       /\ (pc # "done" /\ pc' = "done" /\ mode = "managed")
            => \A j \in Handles : termCalls'[j] = 1 /\ joinCalls'[j] = 1]_vars

\* the scope of two workers has ended after an error in its body: the second
\* worker was still running when the first was terminated
C37_Witness ==
    /\ pc = "done"
    /\ mode = "managed"
    /\ exc = "BodyError"
    /\ Handles = {1, 2}
    /\ \A j \in Handles : termCalls[j] = 1 /\ joinCalls[j] = 1 /\ proc[j].status = "terminated"

\* C38: NDA_application_manager ends only through its finally clause: the
\* application process is terminated, then joined, whether the body
\* returned, the body raised or the startup timed out, and when the scope
\* has ended the process runs no more.
C38_AppTerminatedAndJoined ==
    [][/\ (app_pc \in {"yield", "else"} /\ app_pc' # app_pc) => app_pc' = "shutdown"
       /\ (app_pc = "shutdown" /\ app_pc' # app_pc) => app_pc' = "terminate"
       /\ (app_pc = "terminate" /\ app_pc' # app_pc)
            => /\ app_pc' = "join"
               /\ NDA_app'.status = IF NDA_app.status = "running" THEN "terminated"
                                                                  ELSE NDA_app.status
       /\ (app_pc = "join" /\ app_pc' # app_pc)
            => /\ app_pc' = "done"
               /\ NDA_app.status \in {"terminated", "exited"}
       /\ app_pc' = "done"
            => /\ app_pc \in {"join", "done"}
               /\ app_exc' \in {"none", "BodyError", "TimeoutError"}
               /\ NDA_app'.status \in {"terminated", "exited"}
               /\ NDA_app'.starts = 1]_vars

\* the startup timed out with the application still running: it has been
\* terminated and joined
C38_Witness ==
    /\ app_pc = "done"
    /\ app_exc = "TimeoutError"
    /\ ~body_ran
    /\ NDA_app.status = "terminated"

\* the last Call recorded
LastCall == spy_calls[Len(spy_calls)]

\* ids of the calls recorded
Recorded == {spy_calls[n].id : n \in 1..Len(spy_calls)}


\* a call of a spied callable ends in this step
CallEnds == delivered' # delivered

\* C39: calls changes only by one Call appended when a call ends, carrying
\* the arguments of that call; a call that returns is recorded with the value
\* it returns, a call that raises with result None and the exception it
\* raises; a method still running has no Call yet, so a nested call is
\* recorded before its caller.
C39_CallsRecorded ==
    [][/\ ~CallEnds => spy_calls' = spy_calls
       /\ CallEnds =>
            /\ Len(spy_calls') = Len(spy_calls) + 1
            /\ SubSeq(spy_calls', 1, Len(spy_calls)) = spy_calls
            /\ LastCall'.id = delivered'.id
            /\ delivered'.id \notin Recorded
            /\ Len(frames') < Len(frames)
                 => /\ LastCall'.spy_obj = Top.method
                    /\ LastCall'.args = Top.args
                    /\ LastCall'.kwargs = Top.kwargs
            /\ delivered'.kind = "return" => LastCall'.result = delivered'.value
            /\ delivered'.kind = "raise"
                 => /\ LastCall'.result = None
                    /\ LastCall'.exc = delivered'.value
       /\ \A n \in 1..Len(frames') : frames'[n].id \notin Recorded']_vars

\* the method of the call made in this step
Called ==
    IF Len(frames') > Len(frames) THEN frames'[Len(frames')].method
                                  ELSE LastCall'.spy_obj

\* C40: a call of a method whose mock_results list is not empty returns the
\* first element of the list and removes it, and the real method is not
\* invoked; a call of a method with an empty list or none invokes the real
\* method, and what the real method returns is what the call returns.
C40_MockResultsFifo ==
    [][/\ made' # made =>
            IF Called \in DOMAIN mock_results /\ mock_results[Called] # <<>>
              THEN /\ delivered' = [id |-> made', kind |-> "return",
                                    value |-> mock_results[Called][1]]
                   /\ mock_results' = [mock_results EXCEPT ![Called] = Tail(@)]
                   /\ invoked' = invoked
                   /\ frames' = frames
              ELSE /\ invoked' = [invoked EXCEPT ![Called] = @ + 1]
                   /\ frames'[Len(frames')].id = made'
                   /\ mock_results' = mock_results
                   /\ delivered' = delivered
       /\ made' = made => mock_results' = mock_results /\ invoked' = invoked
       /\ (Len(frames') < Len(frames) /\ delivered'.kind = "return")
            => /\ delivered'.id = Top.id
               /\ spy_return'[Top.method] = delivered'.value]_vars

\* the list <<foo, None>> of get_name is used up by two calls, and the third
\* call has run the real method and returned its value
C40_Witness ==
    /\ "get_name" \in DOMAIN mock_results
    /\ mock_results["get_name"] = <<>>
    /\ Len(spy_calls) = 3
    /\ \A n \in 1..3 : spy_calls[n].spy_obj = "get_name" /\ spy_calls[n].exc = None
    /\ spy_calls[1].result = Some("str", "foo")
    /\ spy_calls[2].result = None
    /\ spy_calls[3].result = Some("str", "Kis")
    /\ invoked["get_name"] = 1
    /\ delivered = [id |-> 3, kind |-> "return", value |-> Some("str", "Kis")]

====
